---- MODULE Spec2Model ----
(***************************************************************************)
(* State-machine model of the accessor library (accessor.c / accessor.h).  *)
(*                                                                         *)
(* The heap of _accessor_t objects, the data blocks they own or borrow,    *)
(* the file descriptors they hold and the caller's accessor_t * handles    *)
(* are the state.  Every public function is one action.  size_t is a       *)
(* SizeBits-wide unsigned integer, so every sum, difference and product    *)
(* the code computes in size_t wraps here as it wraps there.               *)
(***************************************************************************)
EXTENDS Integers, Sequences, FiniteSets, TLC

\* ------------------------------------------------------------------------
\* Bounds of the model
\* ------------------------------------------------------------------------
SizeBits == 4
NumHandles == 2
MaxAcc == 2
HeapLimit == 4
DataSize == 3
FileSize == 3
PageSize == 2
MmapMin == 2
MaxStack == 1
MaxCov == 3
DefaultGranularity == 2
OddGranularity == 3
MaxInitialAllocation == 2
MaxSavedCursor == 2
MaxSuspend == 1
CoverageDataSize == 2
SummaryDataSize == 4
MaxStringLength == 3
MaxStringBytes == 12
MaxSubLog == 2
MaxLifo == 3
MaxNesting == 2
MaxFrame == 2

\* ------------------------------------------------------------------------
\* Program constants
\* ------------------------------------------------------------------------
ACCESSOR_INIT == 0
ACCESSOR_MMAP_MIN_FILESIZE == MmapMin
CursorStackChunk == 64
SizeofUIntMax == 8

\* the endianness new accessors start with; accessorSetDefaultEndianness is
\* never called
accessorPrivateDefaultEndianness == "accessorNative"

SizeModulus == 2 ^ SizeBits
SIZE_MAX == SizeModulus - 1
ACCESSOR_UNTIL_END == SIZE_MAX

Handles == 1 .. NumHandles
AccIds == 1 .. MaxAcc

\* size_t arithmetic
Add(x, y) == (x + y) % SizeModulus
Sub(x, y) == (x - y + SizeModulus) % SizeModulus
Mul(x, y) == (x * y) % SizeModulus

Min(x, y) == IF x < y THEN x ELSE y

\* A byte whose value the C standard leaves indeterminate (malloc'ed or
\* realloc'ed memory that was never written): it stands for every value.
Indet == 0 - 1
DataByte == 1

VARIABLES handle, acc, store, fds, last

vars == <<handle, acc, store, fds, last>>

\* ------------------------------------------------------------------------
\* struct _accessor_t
\* ------------------------------------------------------------------------
NoAcc ==
    [ allocated |-> FALSE,
      referenceCount |-> 0, windowOffset |-> 0, baseAccessorWindowOffset |-> 0,
      windowSize |-> 0, cursor |-> 0, availableBytes |-> 0,
      isBaseAccessor |-> FALSE, writeEnabled |-> FALSE, baseAccessor |-> 0,
      data |-> 0, dataMaxSize |-> 0, dataFileOffset |-> 0, granularity |-> 0,
      isMapped |-> FALSE, mayBeReallocated |-> FALSE, freeOnClose |-> FALSE,
      inputFileDescriptor |-> FALSE, outputFileDescriptor |-> FALSE,
      writeOnClose |-> FALSE, superAccessor |-> 0,
      cursorStack |-> << >>, cursorStackAllocation |-> 0, cursorStackSize |-> 0,
      coverageEnabled |-> FALSE, coverageSuspendCount |-> 0,
      coverageStartOffset |-> 0, coverageArray |-> << >>,
      coverageUsage1 |-> 0, coverageUsage2 |-> 0,
      endianness |-> accessorPrivateDefaultEndianness ]

\* the object accessorPrivateCreateEmpty() builds at address self
EmptyAccessor(self) ==
    [ NoAcc EXCEPT !.allocated = TRUE, !.isBaseAccessor = TRUE,
                   !.baseAccessor = self, !.granularity = DefaultGranularity ]

\* A data block: the memory a base's data pointer designates.  Block i is the
\* one attached to the accessor object in slot i.
NoBlock == [ state |-> "none", bytes |-> << >>, frees |-> 0 ]

LiveBlock(bytes) == [ state |-> "live", bytes |-> bytes, frees |-> 0 ]

\* free(), munmap() of a data block; frees counts the releases (2: twice or
\* more)
Release(b) ==
    [ state |-> "freed", bytes |-> << >>, frees |-> Min(b.frees + 1, 2) ]

\* descriptors of the accessor object in slot i, as the operating system
\* sees them
NoFds == [ in |-> "none", out |-> "none" ]

Fill(n, v) == [ i \in 1 .. n |-> v ]

\* realloc(ptr, size): the first size bytes are kept, the rest is indeterminate
Resize(bytes, size) ==
    [ i \in 1 .. size |-> IF i <= Len(bytes) THEN bytes[i] ELSE Indet ]

\* no typed write is remembered
NoWrite == [ kind |-> "none" ]

\* the typed write the caller remembers after a call of class op: a call
\* that stores nothing in the data (a seek, a read) leaves it as it was,
\* any other call makes the caller forget it
Remembered(op) == IF op \in {"seek", "read"} THEN last.wrote ELSE NoWrite

\* the record of the last library call: the function class, the accessor
\* objects it was applied to, the status it returned, for reads the number
\* of bytes the request stands for, what the call stored through its
\* result pointers (a set of integers: the 1 bits of an integer, or a
\* count as a singleton), the typed write the caller remembers and, for
\* the typed reads that return a value, the function family, the
\* endianness argument and the width in bytes of one integer
CallOut(op, a, b, status, need, out) ==
    [ op |-> op, a |-> a, b |-> b, status |-> status, need |-> need, out |-> out,
      wrote |-> Remembered(op), fn |-> "", e |-> "", width |-> 0 ]

\* a call that stores no result
Call(op, a, b, status, need) == CallOut(op, a, b, status, need, {})

\* the lowest free slot of the accessor heap (0 when malloc has none left)
FreeSlot ==
    IF \E i \in AccIds : ~acc[i].allocated
    THEN CHOOSE i \in AccIds : ~acc[i].allocated /\ \A j \in 1 .. i - 1 : acc[j].allocated
    ELSE 0

\* accessorPrivateRoundUpwardsToNonNullMultiple, in uintmax_t arithmetic
accessorPrivateRoundUpwardsToNonNullMultiple(x, m) ==
    (x + m - (x % m)) % SizeModulus

Init ==
    /\ handle = [ h \in Handles |-> ACCESSOR_INIT ]
    /\ acc = [ i \in AccIds |-> NoAcc ]
    /\ store = [ i \in AccIds |-> NoBlock ]
    /\ fds = [ i \in AccIds |-> NoFds ]
    /\ last = Call("init", 0, 0, "Ok", 0)

\* ------------------------------------------------------------------------
\* accessorClose
\* ------------------------------------------------------------------------
\* The effect of accessorClose(&p) where p designates object i, on the heap
\* S = [acc, store, fds].  wr is what write(2) does if the buffer is flushed.
\* The result says whether p was reset to ACCESSOR_INIT.
RECURSIVE CloseObject(_, _, _)
CloseObject(S, i, wr) ==
    LET a == S.acc[i] IN
    IF a.referenceCount > 0
    THEN [ S |-> [ S EXCEPT !.acc[i].referenceCount = a.referenceCount - 1 ],
           status |-> "Ok", cleared |-> TRUE ]
    ELSE
    LET flush == a.writeOnClose /\ a.outputFileDescriptor /\ a.data # 0 IN
    IF flush /\ wr = "fail"
    THEN [ S |-> S, status |-> "WriteError", cleared |-> FALSE ]
    ELSE
    LET fds1 == [ S.fds EXCEPT
                    ![i].in = IF a.inputFileDescriptor THEN "none" ELSE @,
                    ![i].out = IF a.outputFileDescriptor THEN "none" ELSE @ ]
        S1 == [ S EXCEPT !.fds = fds1 ]
    IN
    IF a.isBaseAccessor
    THEN LET b0 == S1.store[i]
             b1 == IF a.isMapped THEN Release(b0) ELSE b0
             b2 == IF a.freeOnClose /\ a.data # 0 THEN Release(b1) ELSE b1
             \* a block released once is the allocator's again, a block left
             \* alone is the caller's again; one released twice stays on record
             b3 == IF b2.frees <= 1 THEN NoBlock ELSE b2
         IN [ S |-> [ S1 EXCEPT !.store[i] = b3, !.acc[i] = NoAcc ],
              status |-> "Ok", cleared |-> TRUE ]
    ELSE LET r == CloseObject(S1, a.superAccessor, wr) IN
         IF r.status # "Ok"
         THEN [ S |-> r.S, status |-> r.status, cleared |-> FALSE ]
         ELSE [ S |-> [ r.S EXCEPT !.acc[i] = NoAcc ],
                status |-> "Ok", cleared |-> TRUE ]

Heap == [ acc |-> acc, store |-> store, fds |-> fds ]

SetHeap(S) ==
    /\ acc' = S.acc
    /\ store' = S.store
    /\ fds' = S.fds

accessorClose(h) ==
    \E wr \in {"ok", "fail"} :
        IF handle[h] = ACCESSOR_INIT
        THEN /\ last' = Call("close", 0, 0, "InvalidParameter", 0)
             /\ UNCHANGED <<handle, acc, store, fds>>
        ELSE LET r == CloseObject(Heap, handle[h], wr) IN
             /\ SetHeap(r.S)
             /\ handle' = IF r.cleared THEN [ handle EXCEPT ![h] = ACCESSOR_INIT ]
                                       ELSE handle
             /\ last' = Call("close", handle[h], 0, r.status, 0)

\* accessorClose(a) as the open functions call it on the object they have
\* just created in slot i (no sub-accessor, nothing to flush)
Discard(S, i) == CloseObject(S, i, "ok").S

\* ------------------------------------------------------------------------
\* Opening base accessors
\* ------------------------------------------------------------------------
\* status of accessorPrivateCreateEmpty(&handle[h]); on success the new
\* object sits in slot FreeSlot
accessorPrivateCreateEmpty(h) ==
    IF handle[h] # ACCESSOR_INIT THEN "InvalidParameter"
    ELSE IF FreeSlot = 0 THEN "OutOfMemory"
    ELSE "Ok"

\* the heap once accessorPrivateCreateEmpty has built its object in slot i
Created(i) ==
    [ acc |-> [ acc EXCEPT ![i] = EmptyAccessor(i) ],
      store |-> [ store EXCEPT ![i] = NoBlock ],
      fds |-> [ fds EXCEPT ![i] = NoFds ] ]

\* the call returns st and leaves the new object i in the caller's handle
ReturnKeeping(h, i, S, op, st) ==
    /\ SetHeap(S)
    /\ handle' = [ handle EXCEPT ![h] = i ]
    /\ last' = Call(op, i, 0, st, 0)

\* the call returns st after accessorClose(a) destroyed the new object i
ReturnDiscarding(h, i, S, op, st) ==
    /\ SetHeap(Discard(S, i))
    /\ handle' = handle
    /\ last' = Call(op, 0, 0, st, 0)

\* the call returns st before anything was created
ReturnUntouched(op, st) ==
    /\ last' = Call(op, 0, 0, st, 0)
    /\ UNCHANGED <<handle, acc, store, fds>>

\* accessorOpenReadingMemory on the caller's buffer ptr, whose dataSize bytes
\* are bytes
OpenReadingMemoryObject(h, bytes, dataSize, freeOption, windowOffset, windowSize) ==
    LET st == accessorPrivateCreateEmpty(h)
        i == FreeSlot
        size == IF windowSize = ACCESSOR_UNTIL_END
                THEN Sub(dataSize, windowOffset) ELSE windowSize
    IN
    IF st # "Ok" THEN ReturnUntouched("open", st)
    ELSE IF Add(windowOffset, size) > dataSize
    THEN ReturnKeeping(h, i, Created(i), "open", "BeyondEnd")
    ELSE LET S == Created(i)
             a == [ S.acc[i] EXCEPT
                      !.data = i,
                      !.windowOffset = windowOffset,
                      !.baseAccessorWindowOffset = windowOffset,
                      !.windowSize = size,
                      !.cursor = 0,
                      !.availableBytes = size,
                      !.dataMaxSize = dataSize,
                      !.mayBeReallocated = FALSE,
                      !.freeOnClose = freeOption ]
         IN ReturnKeeping(h, i,
                [ S EXCEPT !.acc[i] = a,
                           !.store[i] = LiveBlock(bytes) ],
                "open", "Ok")

accessorOpenReadingMemory(h, dataSize, freeOption, windowOffset, windowSize) ==
    OpenReadingMemoryObject(h, Fill(dataSize, DataByte), dataSize, freeOption,
                            windowOffset, windowSize)

\* env: what the path builder, stat, open, mmap, malloc/lseek and read do
accessorOpenReadingFile(h, windowOffset, windowSize, env) ==
    LET st == accessorPrivateCreateEmpty(h)
        i == FreeSlot
        S == Created(i)
        fileSize == FileSize
        size == IF windowSize = ACCESSOR_UNTIL_END
                THEN Sub(fileSize, windowOffset) ELSE windowSize
        fileMapOffset == Sub(windowOffset, windowOffset % PageSize)
        fileMapSize == Add(size, windowOffset % PageSize)
        tryMap == size # 0 /\ size >= ACCESSOR_MMAP_MIN_FILESIZE
        mapped == tryMap /\ env # "mmapFail" /\ fileMapSize <= HeapLimit
        common(a) == [ a EXCEPT !.windowSize = size,
                                !.cursor = 0,
                                !.availableBytes = size,
                                !.mayBeReallocated = FALSE,
                                !.inputFileDescriptor = TRUE ]
    IN
    IF st # "Ok" THEN ReturnUntouched("open", st)
    ELSE IF env = "pathFail"
    THEN ReturnKeeping(h, i, S, "open", "OutOfMemory")
    ELSE IF env = "statFail"
    THEN ReturnKeeping(h, i, S, "open", "OpenError")
    ELSE IF env = "openFail"
    THEN ReturnDiscarding(h, i, S, "open", "OpenError")
    ELSE IF windowOffset > fileSize
    THEN ReturnDiscarding(h, i, S, "open", "BeyondEnd")
    ELSE IF Add(windowOffset, size) > fileSize
    THEN ReturnDiscarding(h, i, S, "open", "BeyondEnd")
    ELSE IF mapped
    THEN LET a == [ S.acc[i] EXCEPT
                      !.data = i,
                      !.isMapped = TRUE,
                      !.freeOnClose = FALSE,
                      !.dataFileOffset = fileMapOffset,
                      !.windowOffset = windowOffset % PageSize,
                      !.dataMaxSize = fileMapSize,
                      !.baseAccessorWindowOffset = windowOffset % PageSize ]
         IN ReturnKeeping(h, i,
                [ S EXCEPT !.acc[i] = common(a),
                           !.store[i] = LiveBlock(Fill(fileMapSize, DataByte)),
                           !.fds[i].in = "open" ],
                "open", "Ok")
    ELSE LET allocSize == IF size > 0 THEN size ELSE 1 IN
         IF env = "mallocFail" \/ allocSize > HeapLimit
         THEN ReturnDiscarding(h, i, S, "open", "OutOfMemory")
         ELSE IF env = "readFail" /\ size > 0
         THEN ReturnDiscarding(h, i,
                  [ S EXCEPT !.acc[i].data = i,
                             !.store[i] = LiveBlock(Fill(allocSize, Indet)) ],
                  "open", "HostError")
         ELSE LET a == [ S.acc[i] EXCEPT
                           !.data = i,
                           !.dataFileOffset = windowOffset,
                           !.windowOffset = 0,
                           !.dataMaxSize = size,
                           !.baseAccessorWindowOffset = 0,
                           !.freeOnClose = TRUE ]
              IN ReturnKeeping(h, i,
                     [ S EXCEPT !.acc[i] = common(a),
                                !.store[i] = LiveBlock(
                                    [ k \in 1 .. allocSize |->
                                        IF k <= size THEN DataByte ELSE Indet ]),
                                !.fds[i].in = "open" ],
                     "open", "Ok")

\* the part accessorOpenWritingMemory and accessorOpenWritingFile share:
\* the allocation size and granularity they settle on
WritingAllocation(initialAllocation, granularity) ==
    LET g0 == IF granularity = 0 THEN DefaultGranularity ELSE granularity
        clamp == initialAllocation > MaxInitialAllocation
        g == IF clamp THEN MaxInitialAllocation ELSE g0
        ia == IF clamp THEN MaxInitialAllocation ELSE initialAllocation
    IN [ granularity |-> g,
         size |-> accessorPrivateRoundUpwardsToNonNullMultiple(ia, g) ]

accessorOpenWritingMemory(h, initialAllocation, granularity, env) ==
    LET st == accessorPrivateCreateEmpty(h)
        i == FreeSlot
        S == Created(i)
        w == WritingAllocation(initialAllocation, granularity)
    IN
    IF st # "Ok" THEN ReturnUntouched("open", st)
    ELSE IF env = "mallocFail" \/ w.size > HeapLimit
    THEN ReturnDiscarding(h, i, S, "open", "OutOfMemory")
    ELSE LET a == [ S.acc[i] EXCEPT
                      !.data = i,
                      !.dataMaxSize = w.size,
                      !.windowOffset = 0,
                      !.baseAccessorWindowOffset = 0,
                      !.windowSize = 0,
                      !.cursor = 0,
                      !.availableBytes = 0,
                      !.writeEnabled = TRUE,
                      !.granularity = w.granularity,
                      !.mayBeReallocated = TRUE,
                      !.freeOnClose = TRUE ]
         IN ReturnKeeping(h, i,
                [ S EXCEPT !.acc[i] = a,
                           !.store[i] = LiveBlock(Fill(w.size, 0)) ],
                "open", "Ok")

accessorOpenWritingFile(h, initialAllocation, granularity, env) ==
    LET st == accessorPrivateCreateEmpty(h)
        i == FreeSlot
        S == Created(i)
        w == WritingAllocation(initialAllocation, granularity)
        S1 == [ S EXCEPT !.acc[i].data = i,
                         !.store[i] = LiveBlock(Fill(w.size, 0)) ]
    IN
    IF st # "Ok" THEN ReturnUntouched("open", st)
    ELSE IF env = "mallocFail" \/ w.size > HeapLimit
    THEN ReturnDiscarding(h, i, S, "open", "OutOfMemory")
    ELSE IF env = "pathFail"
    THEN ReturnKeeping(h, i, S1, "open", "OutOfMemory")
    ELSE IF env = "openFail"
    THEN ReturnDiscarding(h, i, S1, "open", "OpenError")
    ELSE LET a == [ S1.acc[i] EXCEPT
                      !.outputFileDescriptor = TRUE,
                      !.windowOffset = 0,
                      !.baseAccessorWindowOffset = 0,
                      !.windowSize = 0,
                      !.cursor = 0,
                      !.availableBytes = 0,
                      !.writeEnabled = TRUE,
                      !.dataMaxSize = w.size,
                      !.granularity = w.granularity,
                      !.mayBeReallocated = TRUE,
                      !.freeOnClose = TRUE,
                      !.writeOnClose = TRUE ]
         IN ReturnKeeping(h, i,
                [ S1 EXCEPT !.acc[i] = a, !.fds[i].out = "open" ],
                "open", "Ok")

\* ------------------------------------------------------------------------
\* Coverage bookkeeping done by every read
\* ------------------------------------------------------------------------
CoverageActive(a) == a.coverageEnabled /\ a.coverageSuspendCount = 0

\* an opening of coverage that forgets where the cursor was
OpenCoverageKeepingStart(a) == a

accessorPrivateOpenCoverage(a) ==
    IF CoverageActive(a) THEN [ a EXCEPT !.coverageStartOffset = a.cursor ] ELSE a

accessorPrivateCloseCoverage(a) ==
    IF CoverageActive(a)
    THEN [ a EXCEPT !.coverageArray =
             Append(@, [ offset |-> a.coverageStartOffset,
                         size |-> Sub(a.cursor, a.coverageStartOffset),
                         usage1 |-> a.coverageUsage1,
                         usage2 |-> a.coverageUsage2 ]) ]
    ELSE a

\* Consume with the decrement of availableBytes forgotten
ConsumeKeepingAvailable(a, n) ==
    LET a1 == accessorPrivateOpenCoverage(a)
        a2 == [ a1 EXCEPT !.cursor = Add(a1.cursor, n) ]
    IN accessorPrivateCloseCoverage(a2)

\* the tail every read function ends with: open coverage, advance, close
\* coverage
Consume(a, n) ==
    LET a1 == accessorPrivateOpenCoverage(a)
        a2 == [ a1 EXCEPT !.cursor = Add(a1.cursor, n),
                          !.availableBytes = Sub(a1.availableBytes, n) ]
    IN accessorPrivateCloseCoverage(a2)

\* the coverage log of the model holds at most MaxCov records
CovRoom(a) == CoverageActive(a) => Len(a.coverageArray) < MaxCov

accessorAllowCoverage(h, option) ==
    /\ handle[h] # ACCESSOR_INIT
    /\ acc' = [ acc EXCEPT ![handle[h]].coverageEnabled = option ]
    /\ last' = Call("cov", handle[h], 0, "Ok", 0)
    /\ UNCHANGED <<handle, store, fds>>

accessorSuspendCoverage(h) ==
    /\ handle[h] # ACCESSOR_INIT
    /\ acc' = [ acc EXCEPT ![handle[h]].coverageSuspendCount = @ + 1 ]
    /\ last' = Call("cov", handle[h], 0, "Ok", 0)
    /\ UNCHANGED <<handle, store, fds>>

accessorResumeCoverage(h) ==
    /\ handle[h] # ACCESSOR_INIT
    /\ acc' = [ acc EXCEPT ![handle[h]].coverageSuspendCount =
                             IF @ > 0 THEN @ - 1 ELSE @ ]
    /\ last' = Call("cov", handle[h], 0, "Ok", 0)
    /\ UNCHANGED <<handle, store, fds>>

accessorSetCoverageUsage(h, usage1, usage2) ==
    /\ handle[h] # ACCESSOR_INIT
    /\ acc' = [ acc EXCEPT ![handle[h]].coverageUsage1 = usage1,
                           ![handle[h]].coverageUsage2 = usage2 ]
    /\ last' = Call("cov", handle[h], 0, "Ok", 0)
    /\ UNCHANGED <<handle, store, fds>>

\* forceOption: accessorForceCoverage (TRUE) or accessorDontForceCoverage
accessorAddCoverageRecord(h, offset, count, usage1, usage2, forceOption) ==
    /\ handle[h] # ACCESSOR_INIT
    /\ LET i == handle[h]
           a == acc[i]
           n == IF count = ACCESSOR_UNTIL_END THEN Sub(a.windowSize, offset) ELSE count
       IN
       /\ Len(a.coverageArray) < MaxCov
       /\ acc' = IF /\ (a.coverageEnabled \/ forceOption)
                    /\ a.coverageSuspendCount = 0
                    /\ offset <= a.windowSize
                    /\ Add(offset, n) <= a.windowSize
                 THEN [ acc EXCEPT ![i].coverageArray =
                          Append(@, [ offset |-> offset, size |-> n,
                                      usage1 |-> usage1, usage2 |-> usage2 ]) ]
                 ELSE acc
       /\ last' = Call("addRecord", i, 0, "Ok", 0)
       /\ UNCHANGED <<handle, store, fds>>

\* accessorPrivateCoverageCompare: -1, 0 or +1
accessorPrivateCoverageCompare(c1, c2) ==
    IF c1.offset < c2.offset THEN 0 - 1
    ELSE IF c1.offset > c2.offset THEN 1
    ELSE IF c1.size < c2.size THEN 1
    ELSE IF c1.size > c2.size THEN 0 - 1
    ELSE IF c1.usage1 < c2.usage1 THEN 0 - 1
    ELSE IF c1.usage1 > c2.usage1 THEN 1
    ELSE IF c1.usage2 < c2.usage2 THEN 0 - 1
    ELSE IF c1.usage2 > c2.usage2 THEN 1
    ELSE 0

\* qsort(array, size, sizeof, compare): the elements of array in the order
\* of compare (records that compare equal are equal)
RECURSIVE SortInsert(_, _)
SortInsert(sorted, r) ==
    IF sorted = << >> THEN << r >>
    ELSE IF accessorPrivateCoverageCompare(r, Head(sorted)) <= 0
    THEN << r >> \o sorted
    ELSE << Head(sorted) >> \o SortInsert(Tail(sorted), r)

RECURSIVE qsort(_)
qsort(array) ==
    IF array = << >> THEN << >>
    ELSE SortInsert(qsort(Tail(array)), Head(array))

\* a merge that drops c2 without extending c1
MergeKeepingSize(c1, c2) ==
    [ merged |-> /\ c1.usage1 = c2.usage1
                 /\ c1.usage2 = c2.usage2
                 /\ c1.offset <= c2.offset
                 /\ Add(c1.offset, c1.size) >= c2.offset,
      c1 |-> c1 ]

\* accessorPrivateCoverageMerge(&c1, &c2): whether c2 was merged, and c1
\* afterwards
accessorPrivateCoverageMerge(c1, c2) ==
    IF /\ c1.usage1 = c2.usage1
       /\ c1.usage2 = c2.usage2
       /\ c1.offset <= c2.offset
       /\ Add(c1.offset, c1.size) >= c2.offset
    THEN [ merged |-> TRUE,
           c1 |-> IF Add(c2.offset, c2.size) > Add(c1.offset, c1.size)
                  THEN [ c1 EXCEPT !.size =
                           Sub(Add(c2.offset, c2.size), c1.offset) ]
                  ELSE c1 ]
    ELSE [ merged |-> FALSE, c1 |-> c1 ]

\* the merging loop of accessorSummarizeCoverage when its c2 designates the
\* (c2 + 1)-th record of array
RECURSIVE MergeLoop(_, _)
MergeLoop(array, c2) ==
    IF c2 < 1 THEN array
    ELSE LET m == accessorPrivateCoverageMerge(array[c2], array[c2 + 1])
         IN IF m.merged
            THEN MergeLoop(SubSeq(array, 1, c2 - 1) \o << m.c1 >>
                               \o SubSeq(array, c2 + 2, Len(array)),
                           c2 - 1)
            ELSE MergeLoop(array, c2 - 1)

\* the coverage array accessorSummarizeCoverage(a, NULL, NULL) leaves
Summarized(array) ==
    IF Len(array) = 0 THEN array
    ELSE IF Len(array) >= 2 THEN MergeLoop(qsort(array), Len(array) - 1)
    ELSE qsort(array)

accessorSummarizeCoverage(h) ==
    /\ handle[h] # ACCESSOR_INIT
    /\ acc' = [ acc EXCEPT ![handle[h]].coverageArray = Summarized(@) ]
    /\ last' = Call("summarize", handle[h], 0, "Ok", 0)
    /\ UNCHANGED <<handle, store, fds>>

\* ------------------------------------------------------------------------
\* Sub-accessors
\* ------------------------------------------------------------------------
\* a super that is never refused
SuperAccepted(supera) == FALSE

\* the first test of both open functions: a write-enabled super is refused
SuperRefused(supera) == supera.writeEnabled

accessorOpenReadingAccessorBytes(h, hs, count) ==
    /\ handle[hs] # ACCESSOR_INIT
    /\ LET s == handle[hs]
           supera == acc[s]
           st == accessorPrivateCreateEmpty(h)
           i == FreeSlot
           n == IF count = ACCESSOR_UNTIL_END THEN supera.availableBytes ELSE count
       IN
       IF SuperRefused(supera)
       THEN /\ last' = Call("openSub", 0, s, "InvalidParameter", 0)
            /\ UNCHANGED <<handle, acc, store, fds>>
       ELSE IF count # ACCESSOR_UNTIL_END /\ count > supera.availableBytes
       THEN /\ last' = Call("openSub", 0, s, "BeyondEnd", 0)
            /\ UNCHANGED <<handle, acc, store, fds>>
       ELSE IF st # "Ok"
       THEN /\ last' = Call("openSub", 0, s, st, 0)
            /\ UNCHANGED <<handle, acc, store, fds>>
       ELSE /\ CovRoom(supera)
            /\ LET S == Created(i)
                   a == [ S.acc[i] EXCEPT
                            !.windowOffset = supera.cursor,
                            !.baseAccessorWindowOffset =
                                Add(supera.baseAccessorWindowOffset, supera.cursor),
                            !.windowSize = n,
                            !.cursor = 0,
                            !.availableBytes = n,
                            !.isBaseAccessor = FALSE,
                            !.writeEnabled = FALSE,
                            !.baseAccessor = supera.baseAccessor,
                            !.superAccessor = s,
                            !.endianness = supera.endianness ]
                   sup == Consume([ supera EXCEPT
                                      !.referenceCount = supera.referenceCount + 1 ], n)
               IN /\ SetHeap([ S EXCEPT !.acc[i] = a, !.acc[s] = sup ])
                  /\ handle' = [ handle EXCEPT ![h] = i ]
                  /\ last' = Call("openSub", i, s, "Ok", 0)

accessorOpenReadingAccessorWindow(h, hs, windowOffset, windowSize) ==
    /\ handle[hs] # ACCESSOR_INIT
    /\ LET s == handle[hs]
           supera == acc[s]
           st == accessorPrivateCreateEmpty(h)
           i == FreeSlot
           size == IF windowSize = ACCESSOR_UNTIL_END
                   THEN Sub(supera.windowSize, windowOffset) ELSE windowSize
       IN
       IF SuperRefused(supera)
       THEN /\ last' = Call("openSub", 0, s, "InvalidParameter", 0)
            /\ UNCHANGED <<handle, acc, store, fds>>
       ELSE IF st # "Ok"
       THEN /\ last' = Call("openSub", 0, s, st, 0)
            /\ UNCHANGED <<handle, acc, store, fds>>
       ELSE IF windowOffset > supera.windowSize
               \/ Add(windowOffset, size) > supera.windowSize
       THEN /\ SetHeap(Discard(Created(i), i))
            /\ handle' = handle
            /\ last' = Call("openSub", 0, s, "BeyondEnd", 0)
       ELSE LET S == Created(i)
                a == [ S.acc[i] EXCEPT
                         !.windowOffset = windowOffset,
                         !.baseAccessorWindowOffset =
                             Add(windowOffset, supera.baseAccessorWindowOffset),
                         !.windowSize = size,
                         !.cursor = 0,
                         !.availableBytes = size,
                         !.isBaseAccessor = FALSE,
                         !.writeEnabled = FALSE,
                         !.baseAccessor = supera.baseAccessor,
                         !.superAccessor = s,
                         !.endianness = supera.endianness ]
            IN /\ SetHeap([ S EXCEPT
                              !.acc[i] = a,
                              !.acc[s].referenceCount = supera.referenceCount + 1 ])
               /\ handle' = [ handle EXCEPT ![h] = i ]
               /\ last' = Call("openSub", i, s, "Ok", 0)

\* ------------------------------------------------------------------------
\* Growing a write accessor
\* ------------------------------------------------------------------------
\* what realloc(ptr, size) can do.  A request the heap cannot serve fails; a
\* request of size 0 either frees ptr and returns NULL, returns NULL and keeps
\* ptr, or frees ptr and returns an empty block (the C library decides).
ReallocOutcomes(size) ==
    IF size = 0 THEN {"freeNull", "keepNull", "empty"}
    ELSE IF size > HeapLimit THEN {"fail"}
    ELSE {"ok", "fail"}

\* the size accessorPrivateGrow would pass to realloc, or 0 - 1 when it
\* would not call realloc
GrowRequest(a, newSize) ==
    IF newSize > Add(a.windowOffset, a.windowSize)
       /\ a.dataMaxSize < newSize /\ a.mayBeReallocated
    THEN accessorPrivateRoundUpwardsToNonNullMultiple(newSize, a.granularity)
    ELSE 0 - 1

GrowOutcomes(a, newSize) ==
    IF GrowRequest(a, newSize) < 0 THEN {"none"}
    ELSE ReallocOutcomes(GrowRequest(a, newSize))

\* accessorPrivateGrow(a, newSize) on base object a with data block b, when
\* realloc behaves as r
accessorPrivateGrow(a, b, newSize, r) ==
    IF newSize <= Add(a.windowOffset, a.windowSize)
    THEN [ status |-> "Ok", a |-> a, b |-> b ]
    ELSE IF a.dataMaxSize < newSize /\ ~a.mayBeReallocated
    THEN [ status |-> "InvalidParameter", a |-> a, b |-> b ]
    ELSE IF a.dataMaxSize < newSize /\ r \in {"fail", "keepNull"}
    THEN [ status |-> "OutOfMemory", a |-> a, b |-> b ]
    ELSE IF a.dataMaxSize < newSize /\ r = "freeNull"
    THEN [ status |-> "OutOfMemory", a |-> a, b |-> Release(b) ]
    ELSE LET newDataSize ==
                 accessorPrivateRoundUpwardsToNonNullMultiple(newSize, a.granularity)
             grown == a.dataMaxSize < newSize
         IN [ status |-> "Ok",
              a |-> [ a EXCEPT
                        !.dataMaxSize = IF grown THEN newDataSize ELSE @,
                        !.windowSize = newSize,
                        !.availableBytes = Sub(newSize, a.cursor) ],
              b |-> IF grown /\ b.state = "live"
                    THEN [ b EXCEPT !.bytes = Resize(b.bytes, newDataSize) ]
                    ELSE b ]

\* memset/memcpy of n bytes of value v at offset off of block b; what falls
\* outside the block lands in memory the model does not represent
MemWrite(b, off, n, v) ==
    IF b.state # "live" THEN b
    ELSE [ b EXCEPT !.bytes =
             [ k \in 1 .. Len(b.bytes) |->
                 IF off < k /\ k <= off + n THEN v ELSE b.bytes[k] ] ]

\* the byte at offset off of block b, as a set of possible values
MemRead(b, off) ==
    IF b.state = "live" /\ off < Len(b.bytes) /\ b.bytes[off + 1] # Indet
    THEN { b.bytes[off + 1] }
    ELSE { 0, 1, SIZE_MAX }

\* ------------------------------------------------------------------------
\* Cursor and window
\* ------------------------------------------------------------------------
\* accessorTruncate without the check of writeEnabled
accessorTruncateUnchecked(h) ==
    /\ handle[h] # ACCESSOR_INIT
    /\ acc' = [ acc EXCEPT ![handle[h]].windowSize = acc[handle[h]].cursor,
                           ![handle[h]].availableBytes = 0 ]
    /\ last' = Call("truncate", handle[h], 0, "Ok", 0)
    /\ UNCHANGED <<handle, store, fds>>

accessorTruncate(h) ==
    /\ handle[h] # ACCESSOR_INIT
    /\ LET i == handle[h] IN
       IF ~acc[i].writeEnabled
       THEN /\ last' = Call("truncate", i, 0, "ReadOnlyError", 0)
            /\ UNCHANGED <<handle, acc, store, fds>>
       ELSE /\ acc' = [ acc EXCEPT ![i].windowSize = acc[i].cursor,
                                   ![i].availableBytes = 0 ]
            /\ last' = Call("truncate", i, 0, "Ok", 0)
            /\ UNCHANGED <<handle, store, fds>>

\* accessorSeek on object i of heap S: offset is the ssize_t argument as
\* converted to size_t, r is what realloc does if the base has to grow
SeekObject(S, i, offset, whence, r) ==
    LET a == S.acc[i]
        newCursor == CASE whence = "SEEK_SET" -> offset
                       [] whence = "SEEK_CUR" -> Add(a.cursor, offset)
                       [] whence = "SEEK_END" -> Add(a.windowSize, offset)
                       [] OTHER -> 0
    IN
    IF whence \notin {"SEEK_SET", "SEEK_CUR", "SEEK_END"}
    THEN [ S |-> S, status |-> "InvalidParameter" ]
    ELSE
    LET extend == a.writeEnabled /\ newCursor > a.windowSize
        bs == a.baseAccessor
        mustGrow == extend /\ newCursor > S.acc[bs].dataMaxSize
        g == accessorPrivateGrow(S.acc[bs], S.store[bs], newCursor, r)
    IN
    IF mustGrow /\ g.status # "Ok"
    THEN [ S |-> [ S EXCEPT !.store[bs] = g.b ], status |-> g.status ]
    ELSE
    LET S1 == IF mustGrow THEN [ S EXCEPT !.acc[bs] = g.a, !.store[bs] = g.b ] ELSE S
        S2 == IF extend
              THEN [ S1 EXCEPT
                       !.store[bs] = MemWrite(@, a.windowSize,
                                              newCursor - a.windowSize, 0),
                       !.acc[i].windowSize = newCursor ]
              ELSE S1
    IN
    IF newCursor > S2.acc[i].windowSize
    THEN [ S |-> S2, status |-> "BeyondEnd" ]
    ELSE [ S |-> [ S2 EXCEPT !.acc[i].cursor = newCursor,
                             !.acc[i].availableBytes =
                                 Sub(S2.acc[i].windowSize, newCursor) ],
           status |-> "Ok" ]

\* the realloc outcomes a seek of object i to newCursor may meet
SeekOutcomes(i, offset, whence) ==
    LET a == acc[i]
        newCursor == CASE whence = "SEEK_SET" -> offset
                       [] whence = "SEEK_CUR" -> Add(a.cursor, offset)
                       [] whence = "SEEK_END" -> Add(a.windowSize, offset)
                       [] OTHER -> 0
    IN IF a.writeEnabled /\ newCursor > a.windowSize
          /\ newCursor > acc[a.baseAccessor].dataMaxSize
       THEN GrowOutcomes(acc[a.baseAccessor], newCursor)
       ELSE {"none"}

accessorSeek(h, offset, whence) ==
    /\ handle[h] # ACCESSOR_INIT
    /\ \E r \in SeekOutcomes(handle[h], offset, whence) :
          LET res == SeekObject(Heap, handle[h], offset, whence, r) IN
          /\ SetHeap(res.S)
          /\ last' = Call("seek", handle[h], 0, res.status, 0)
          /\ UNCHANGED handle

\* accessorPrivateExtendPointerSizeAllocation as accessorPushCursor uses it:
\* the allocation after making room for newsize cells
ExtendedAllocation(alloc, newsize) ==
    IF newsize > alloc
    THEN (newsize - 1 + CursorStackChunk) - ((newsize - 1) % CursorStackChunk)
    ELSE alloc

\* accessorPushCursor for a caller that saves at most room cursors
accessorPushCursorWithin(h, env, room) ==
    /\ handle[h] # ACCESSOR_INIT
    /\ LET i == handle[h]
           a == acc[i]
           newsize == a.cursorStackSize + 1
       IN
       /\ a.cursorStackSize < room
       /\ IF newsize > a.cursorStackAllocation /\ env = "mallocFail"
          THEN /\ last' = Call("push", i, 0, "OutOfMemory", 0)
               /\ UNCHANGED <<handle, acc, store, fds>>
          ELSE /\ acc' = [ acc EXCEPT
                             ![i].cursorStackAllocation =
                                 ExtendedAllocation(a.cursorStackAllocation, newsize),
                             ![i].cursorStackSize = newsize,
                             ![i].cursorStack =
                                 IF newsize <= Len(a.cursorStack)
                                 THEN [ a.cursorStack EXCEPT ![newsize] = a.cursor ]
                                 ELSE Append(a.cursorStack, a.cursor) ]
               /\ last' = Call("push", i, 0, "Ok", 0)
               /\ UNCHANGED <<handle, store, fds>>

accessorPushCursor(h, env) == accessorPushCursorWithin(h, env, MaxStack)

\* a stack read that always finds the oldest cursor
StackBottom(a, k) == { a.cursorStack[1] }

\* the values cursorStack[k] (C index) may hold: a cell written by an earlier
\* push, or an allocated cell never written
StackCell(a, k) ==
    IF k < Len(a.cursorStack) THEN { a.cursorStack[k + 1] } ELSE { 0, SIZE_MAX }

\* accessorPopCursor is accessorPopCursors with n = 1
accessorPopCursors(h, n, op) ==
    /\ handle[h] # ACCESSOR_INIT
    /\ LET i == handle[h]
           a == acc[i]
       IN
       IF a.cursorStackSize < n
       THEN /\ last' = Call(op, i, 0, "InvalidParameter", 0)
            /\ UNCHANGED <<handle, acc, store, fds>>
       ELSE \* reading a cell outside the allocation ends the process
            /\ a.cursorStackSize - n < a.cursorStackAllocation
            /\ \E target \in StackCell(a, a.cursorStackSize - n) :
               \E r \in SeekOutcomes(i, target, "SEEK_SET") :
                  LET S == [ Heap EXCEPT !.acc[i].cursorStackSize = a.cursorStackSize - n ]
                      res == SeekObject(S, i, target, "SEEK_SET", r)
                  IN /\ SetHeap(res.S)
                     /\ last' = Call(op, i, 0, res.status, 0)
                     /\ UNCHANGED handle

accessorPopCursor(h) == accessorPopCursors(h, 1, "pop")

\* accessorDropCursor is accessorDropCursors with n = 1
accessorDropCursors(h, n) ==
    /\ handle[h] # ACCESSOR_INIT
    /\ LET i == handle[h] IN
       IF acc[i].cursorStackSize < n
       THEN /\ last' = Call("drop", i, 0, "InvalidParameter", 0)
            /\ UNCHANGED <<handle, acc, store, fds>>
       ELSE /\ acc' = [ acc EXCEPT ![i].cursorStackSize = acc[i].cursorStackSize - n ]
            /\ last' = Call("drop", i, 0, "Ok", 0)
            /\ UNCHANGED <<handle, store, fds>>

accessorDropCursor(h) == accessorDropCursors(h, 1)

\* ------------------------------------------------------------------------
\* Reads
\* ------------------------------------------------------------------------
\* The common shape of the read functions on object i: pre is the status of
\* the parameter check made before the bounds check, n the byte count the
\* code compares with availableBytes (a size_t), need the byte count the
\* request stands for, post the status of an allocation made after the
\* bounds check.
ReadObject(i, pre, n, need, post) ==
    LET a == acc[i] IN
    IF pre # "Ok"
    THEN /\ last' = Call("read", i, 0, pre, need)
         /\ UNCHANGED <<handle, acc, store, fds>>
    ELSE IF a.availableBytes < n
    THEN /\ last' = Call("read", i, 0, "BeyondEnd", need)
         /\ UNCHANGED <<handle, acc, store, fds>>
    ELSE IF post # "Ok"
    THEN /\ last' = Call("read", i, 0, post, need)
         /\ UNCHANGED <<handle, acc, store, fds>>
    ELSE /\ CovRoom(a)
         /\ acc' = [ acc EXCEPT ![i] = Consume(a, n) ]
         /\ last' = Call("read", i, 0, "Ok", need)
         /\ UNCHANGED <<handle, store, fds>>

\* malloc(size) for a result buffer
MallocStatus(size, env) ==
    IF env = "mallocFail" \/ size > HeapLimit THEN "OutOfMemory" ELSE "Ok"

accessorReadEndianUInt(h, nbytes) ==
    /\ handle[h] # ACCESSOR_INIT
    /\ ReadObject(handle[h],
                  IF nbytes > SizeofUIntMax THEN "InvalidParameter" ELSE "Ok",
                  nbytes, nbytes, "Ok")

\* accessorRead[Endian][U]Int{8,16,24,32,64} and accessorRead[Endian]Float{32,64}
accessorReadUIntN(h, width) ==
    /\ handle[h] # ACCESSOR_INIT
    /\ ReadObject(handle[h], "Ok", width, width, "Ok")

\* accessorRead[Endian][U]Int{16,24,32,64}Array: elements of elemSize bytes
\* in the data, of sizeofElem bytes in the result
accessorReadArray(h, elemSize, sizeofElem, count, env) ==
    /\ handle[h] # ACCESSOR_INIT
    /\ ReadObject(handle[h], "Ok", Mul(count, elemSize), count * elemSize,
                  MallocStatus(Mul(count, sizeofElem), env))

accessorReadBytes(h, count) ==
    /\ handle[h] # ACCESSOR_INIT
    /\ ReadObject(handle[h], "Ok", count, count, "Ok")

accessorReadFixedLengthString(h, length, env) ==
    /\ handle[h] # ACCESSOR_INIT
    /\ ReadObject(handle[h], "Ok", length, length,
                  MallocStatus(Add(length, 1), env))

accessorReadPString(h, env) ==
    /\ handle[h] # ACCESSOR_INIT
    /\ LET i == handle[h]
           a == acc[i]
       IN
       IF a.availableBytes < 1
       THEN ReadObject(i, "Ok", 1, 1, "Ok")
       ELSE \E stringLength \in
                 MemRead(store[a.baseAccessor],
                         Add(a.baseAccessorWindowOffset, a.cursor)) :
              ReadObject(i, "Ok", stringLength + 1, stringLength + 1,
                         MallocStatus(stringLength + 1, env))

accessorGetPointerForBytesToRead(h, count) ==
    /\ handle[h] # ACCESSOR_INIT
    /\ ReadObject(handle[h], "Ok", count, count, "Ok")

\* ------------------------------------------------------------------------
\* Integer values
\* ------------------------------------------------------------------------
\* A uintmax_t value is the set of the positions of its 1 bits.
UIntMaxBits == SizeofUIntMax * 8
BitPositions == 0 .. UIntMaxBits - 1
ByteValues == 0 .. 255

\* (uintmax_t) byte
BitsOfByte(byte) == { j \in 0 .. 7 : (byte \div (2 ^ j)) % 2 = 1 }

\* (uint8_t) x
ByteOfBits(x) ==
    LET bit(j) == IF j \in x THEN 2 ^ j ELSE 0
    IN bit(0) + bit(1) + bit(2) + bit(3) + bit(4) + bit(5) + bit(6) + bit(7)

\* x << k, x >> k, x | y, x ^ y, x & y on uintmax_t (0 <= k < UIntMaxBits)
Shl(x, k) == { p + k : p \in x } \cap BitPositions
Shr(x, k) == { p - k : p \in { q \in x : q >= k } }
BitOr(x, y) == x \cup y
BitXor(x, y) == (x \ y) \cup (y \ x)
BitAnd(x, y) == x \cap y

\* - x for x in {0, 1}
NegateBit(x) == IF 0 \in x THEN BitPositions ELSE {}

\* the byte at offset off of block b when the bytes the program never
\* stored read as c
ReadByte(b, off, c) ==
    IF b.state = "live" /\ off < Len(b.bytes) /\ b.bytes[off + 1] # Indet
    THEN b.bytes[off + 1]
    ELSE c

\* the values a byte the program never stored can read as
IndetBytes == { 0, 255 }

\* the n bytes of accessor object i that start at its cursor
BytesAtCursor(i, n, c) ==
    LET a == acc[i] IN
    [ k \in 1 .. n |->
        ReadByte(store[a.baseAccessor],
                 a.baseAccessorWindowOffset + a.cursor + k - 1, c) ]

\* ------------------------------------------------------------------------
\* Variable-length integers
\* ------------------------------------------------------------------------
\* the most bytes the loop of accessorReadVarInt reads
MaxVarIntBytes == (UIntMaxBits + 6) \div 7

\* the loop of accessorReadVarInt over the bytes mem, after nbytes bytes
RECURSIVE VarIntScan(_, _, _, _, _)
VarIntScan(mem, availableBytes, nbytes, shiftCount, result) ==
    IF availableBytes < 1
    THEN [ status |-> "BeyondEnd", nbytes |-> nbytes + 1, result |-> {} ]
    ELSE LET byte == mem[nbytes + 1]
             r == BitOr(result, Shl(BitsOfByte(byte % 128), shiftCount))
             sc == shiftCount + 7
         IN IF byte >= 128 /\ sc < UIntMaxBits
            THEN VarIntScan(mem, availableBytes - 1, nbytes + 1, sc, r)
            ELSE IF byte >= 128
            THEN [ status |-> "InvalidReadData", nbytes |-> nbytes + 1, result |-> {} ]
            ELSE [ status |-> "Ok", nbytes |-> nbytes + 1, result |-> r ]

\* *x = result
VarIntValue(varint) == varint

\* a decoding that forgets the sign
ZigZagHalved(varint) == Shr(varint, 1)

\* (varint >> 1) ^ - (varint & 1)
ZigZagValue(varint) == BitXor(Shr(varint, 1), NegateBit(BitAnd(varint, {0})))

\* accessorReadVarInt on object i; fn is the function the caller called,
\* accessorReadZigZagInt decodes the value read
ReadVarIntObject(i, fn, c) ==
    LET a == acc[i]
        v == VarIntScan(BytesAtCursor(i, MaxVarIntBytes, c), a.availableBytes,
                        0, 0, {})
    IN
    IF v.status # "Ok"
    THEN /\ last' = [ Call("read", i, 0, v.status, v.nbytes) EXCEPT !.fn = fn ]
         /\ UNCHANGED <<handle, acc, store, fds>>
    ELSE /\ acc' = [ acc EXCEPT
                       ![i].availableBytes = Sub(a.availableBytes, v.nbytes),
                       ![i].cursor = Add(a.cursor, v.nbytes) ]
         /\ last' = [ CallOut("read", i, 0, "Ok", v.nbytes,
                              IF fn = "ZigZag" THEN ZigZagValue(v.result)
                              ELSE VarIntValue(v.result))
                        EXCEPT !.fn = fn ]
         /\ UNCHANGED <<handle, store, fds>>

accessorReadVarInt(h) ==
    /\ handle[h] # ACCESSOR_INIT
    /\ \E c \in IndetBytes : ReadVarIntObject(handle[h], "VarInt", c)

accessorReadZigZagInt(h) ==
    /\ handle[h] # ACCESSOR_INIT
    /\ \E c \in IndetBytes : ReadVarIntObject(handle[h], "ZigZag", c)

\* ------------------------------------------------------------------------
\* Look-ahead
\* ------------------------------------------------------------------------
\* memcmp(ptr + nbytes, delimiter, delLength) = 0 for ptr at the cursor of
\* object i
DelimiterAt(i, nbytes, delLength, delimiter, c) ==
    LET a == acc[i] IN
    \A k \in 1 .. delLength :
        ReadByte(store[a.baseAccessor],
                 a.baseAccessorWindowOffset + a.cursor + nbytes + k - 1, c)
            = delimiter[k]

\* the loops of accessorLookAheadCountBytesBeforeDelimiter
RECURSIVE LookAheadScan(_, _, _, _, _, _)
LookAheadScan(i, availableBytes, nbytes, delLength, delimiter, c) ==
    IF DelimiterAt(i, nbytes, delLength, delimiter, c)
    THEN [ status |-> "Ok", count |-> nbytes ]
    ELSE IF availableBytes = 0
    THEN [ status |-> "BeyondEnd", count |-> 0 ]
    ELSE LookAheadScan(i, availableBytes - 1, nbytes + 1, delLength, delimiter, c)

accessorLookAheadCountBytesBeforeDelimiter(h, countLimit, delLength, delimiter) ==
    /\ handle[h] # ACCESSOR_INIT
    /\ \E c \in IndetBytes :
          LET i == handle[h]
              a == acc[i]
              limit == IF countLimit = ACCESSOR_UNTIL_END
                       THEN Sub(a.availableBytes, delLength) ELSE countLimit
              r == LookAheadScan(i, Min(limit, a.availableBytes), 0,
                                 delLength, delimiter, c)
          IN
          /\ last' = IF delLength < 1
                     THEN Call("lookAhead", i, 0, "InvalidParameter", 0)
                     ELSE IF a.availableBytes < delLength
                     THEN Call("lookAhead", i, 0, "BeyondEnd", 0)
                     ELSE CallOut("lookAhead", i, 0, r.status, 0, {r.count})
          /\ UNCHANGED <<handle, acc, store, fds>>

\* ------------------------------------------------------------------------
\* Writes
\* ------------------------------------------------------------------------
\* The shape of the typed writes (scalars, arrays, varints) on object i:
\* grow when availableBytes < n, store n bytes of value v at the cursor,
\* advance.
TypedWriteObject(i, pre, n, v, r) ==
    LET a == acc[i]
        bs == a.baseAccessor
        g == accessorPrivateGrow(acc[bs], store[bs], Add(a.cursor, n), r)
        grow == a.availableBytes < n
    IN
    IF ~a.writeEnabled
    THEN /\ last' = Call("write", i, 0, "ReadOnlyError", 0)
         /\ UNCHANGED <<handle, acc, store, fds>>
    ELSE IF pre # "Ok"
    THEN /\ last' = Call("write", i, 0, pre, 0)
         /\ UNCHANGED <<handle, acc, store, fds>>
    ELSE IF grow /\ g.status # "Ok"
    THEN /\ store' = [ store EXCEPT ![bs] = g.b ]
         /\ last' = Call("write", i, 0, g.status, 0)
         /\ UNCHANGED <<handle, acc, fds>>
    ELSE LET acc1 == IF grow THEN [ acc EXCEPT ![bs] = g.a ] ELSE acc
             b1 == IF grow THEN g.b ELSE store[bs]
         IN /\ acc' = [ acc1 EXCEPT
                          ![i].cursor = Add(acc1[i].cursor, n),
                          ![i].availableBytes = Sub(acc1[i].availableBytes, n) ]
            /\ store' = [ store EXCEPT ![bs] =
                            MemWrite(b1, Add(a.baseAccessorWindowOffset, a.cursor),
                                     n, v) ]
            /\ last' = Call("write", i, 0, "Ok", 0)
            /\ UNCHANGED <<handle, fds>>

TypedWriteOutcomes(i, n) ==
    LET a == acc[i] IN
    IF a.writeEnabled /\ a.availableBytes < n
    THEN GrowOutcomes(acc[a.baseAccessor], Add(a.cursor, n))
    ELSE {"none"}

accessorWriteEndianUInt(h, nbytes, v) ==
    /\ handle[h] # ACCESSOR_INIT
    /\ \E r \in TypedWriteOutcomes(handle[h], nbytes) :
          TypedWriteObject(handle[h],
                           IF nbytes > SizeofUIntMax THEN "InvalidParameter" ELSE "Ok",
                           nbytes, v, r)

\* accessorWrite[Endian][U]Int{8,16,24,32,64}, accessorWrite[Endian]Float{32,64}
\* and accessorWriteVarInt, accessorWriteZigZagInt for an encoding of width bytes
accessorWriteUIntN(h, width, v) ==
    /\ handle[h] # ACCESSOR_INIT
    /\ \E r \in TypedWriteOutcomes(handle[h], width) :
          TypedWriteObject(handle[h], "Ok", width, v, r)

\* accessorWrite[Endian][U]Int{16,24,32,64}Array
accessorWriteArray(h, elemSize, count, v) ==
    /\ handle[h] # ACCESSOR_INIT
    /\ \E r \in TypedWriteOutcomes(handle[h], Mul(count, elemSize)) :
          TypedWriteObject(handle[h], "Ok", Mul(count, elemSize), v, r)

\* accessorPrivateGetPointerForWrite(&r, a, nbytes) on object i
accessorPrivateGetPointerForWrite(i, nbytes, r) ==
    LET a == acc[i]
        bs == a.baseAccessor
        offset == Add(a.baseAccessorWindowOffset, a.cursor)
        endOffset == Add(offset, nbytes)
        grow == endOffset > a.windowSize
        g == accessorPrivateGrow(acc[bs], store[bs], endOffset, r)
    IN
    IF grow /\ g.status # "Ok"
    THEN [ status |-> g.status, acc |-> acc, b |-> g.b, offset |-> offset ]
    ELSE LET acc1 == IF grow THEN [ acc EXCEPT ![bs] = g.a ] ELSE acc IN
         [ status |-> "Ok",
           acc |-> [ acc1 EXCEPT
                       ![i].cursor = Add(acc1[i].cursor, nbytes),
                       ![i].availableBytes = Sub(acc1[i].availableBytes, nbytes) ],
           b |-> IF grow THEN g.b ELSE store[bs],
           offset |-> offset ]

PointerWriteOutcomes(i, nbytes) ==
    LET a == acc[i]
        endOffset == Add(Add(a.baseAccessorWindowOffset, a.cursor), nbytes)
    IN IF a.writeEnabled /\ endOffset > a.windowSize
       THEN GrowOutcomes(acc[a.baseAccessor], endOffset)
       ELSE {"none"}

\* The shape of the writes built on accessorPrivateGetPointerForWrite: the
\* region of nbytes bytes is obtained, then its first stored bytes are set
\* to v and the zeros following bytes to 0.
PointerWriteObject(i, pre, nbytes, stored, v, zeros, r) ==
    LET a == acc[i]
        bs == a.baseAccessor
        p == accessorPrivateGetPointerForWrite(i, nbytes, r)
    IN
    IF ~a.writeEnabled
    THEN /\ last' = Call("write", i, 0, "ReadOnlyError", 0)
         /\ UNCHANGED <<handle, acc, store, fds>>
    ELSE IF pre # "Ok"
    THEN /\ last' = Call("write", i, 0, pre, 0)
         /\ UNCHANGED <<handle, acc, store, fds>>
    ELSE IF p.status # "Ok"
    THEN /\ store' = [ store EXCEPT ![bs] = p.b ]
         /\ last' = Call("write", i, 0, p.status, 0)
         /\ UNCHANGED <<handle, acc, fds>>
    ELSE /\ acc' = p.acc
         /\ store' = [ store EXCEPT ![bs] =
                         MemWrite(MemWrite(p.b, p.offset, stored, v),
                                  p.offset + stored, zeros, 0) ]
         /\ last' = Call("write", i, 0, "Ok", 0)
         /\ UNCHANGED <<handle, fds>>

\* accessorWriteBytes, accessorWriteEndianBytes, accessorWriteRepeatedByte
accessorWriteBytes(h, count, v) ==
    /\ handle[h] # ACCESSOR_INIT
    /\ \E r \in PointerWriteOutcomes(handle[h], count) :
          PointerWriteObject(handle[h], "Ok", count, count, v, 0, r)

accessorGetPointerForBytesToWrite(h, count) ==
    /\ handle[h] # ACCESSOR_INIT
    /\ \E r \in PointerWriteOutcomes(handle[h], count) :
          PointerWriteObject(handle[h], "Ok", count, 0, 0, 0, r)

accessorWriteCStringWithLength(h, length, v) ==
    /\ handle[h] # ACCESSOR_INIT
    /\ \E r \in PointerWriteOutcomes(handle[h], Add(length, 1)) :
          PointerWriteObject(handle[h], "Ok", Add(length, 1), length, v, 1, r)

\* ------------------------------------------------------------------------
\* accessorSwap
\* ------------------------------------------------------------------------
\* accessorSwap without the propagation of the read-only state
accessorSwapKeepingFlags(h1, h2) ==
    /\ handle' = [ handle EXCEPT ![h1] = handle[h2], ![h2] = handle[h1] ]
    /\ last' = Call("swap", handle[h1], handle[h2], "Ok", 0)
    /\ UNCHANGED <<acc, store, fds>>

accessorSwap(h1, h2) ==
    LET a1 == handle[h1]
        a2 == handle[h2]
    IN
    /\ acc' = IF /\ a1 # ACCESSOR_INIT
                 /\ a2 # ACCESSOR_INIT
                 /\ (~acc[a1].writeEnabled \/ ~acc[a2].writeEnabled)
              THEN [ acc EXCEPT ![a1].writeEnabled = FALSE,
                                ![a2].writeEnabled = FALSE ]
              ELSE acc
    /\ handle' = [ handle EXCEPT ![h1] = a2, ![h2] = a1 ]
    /\ last' = Call("swap", a1, a2, "Ok", 0)
    /\ UNCHANGED <<store, fds>>

\* ------------------------------------------------------------------------
\* The arguments the callers of the model pass
\* ------------------------------------------------------------------------
\* an element count whose product with an element size of 2 exceeds SIZE_MAX
BigCount == SizeModulus \div 2 + 1

FileEnv == {"ok", "pathFail", "statFail", "openFail", "mmapFail", "mallocFail", "readFail"}
WriteFileEnv == {"ok", "mallocFail", "pathFail", "openFail"}
MallocEnv == {"ok", "mallocFail"}
OffsetArgs == {1, DataSize + 1}
SizeArgs == {1, ACCESSOR_UNTIL_END}
SubOffsetArgs == {1, 2}
SubSizeArgs == {1, SIZE_MAX - 1, ACCESSOR_UNTIL_END}
CountArgs == {1, ACCESSOR_UNTIL_END}
SeekArgs == {0, 1, SIZE_MAX}
WhenceArgs == {"SEEK_SET", "SEEK_CUR", "SEEK_END", "SEEK_HOLE"}

\* ------------------------------------------------------------------------
\* Life cycle: every way to open, share, swap and close accessors, with the
\* writes and seeks that make a base grow
\* ------------------------------------------------------------------------
Next ==
    \/ \E h \in Handles, f \in BOOLEAN, o \in OffsetArgs, n \in SizeArgs :
          accessorOpenReadingMemory(h, DataSize, f, o, n)
    \/ \E h \in Handles, env \in FileEnv :
          accessorOpenReadingFile(h, 1, ACCESSOR_UNTIL_END, env)
    \/ \E h \in Handles, env \in MallocEnv :
          accessorOpenWritingMemory(h, MaxInitialAllocation + 1, 0, env)
    \/ \E h \in Handles, env \in WriteFileEnv :
          accessorOpenWritingFile(h, 0, OddGranularity, env)
    \/ \E h, hs \in Handles, n \in CountArgs :
          h # hs /\ accessorOpenReadingAccessorBytes(h, hs, n)
    \/ \E h, hs \in Handles, o \in SubOffsetArgs, n \in SubSizeArgs :
          h # hs /\ accessorOpenReadingAccessorWindow(h, hs, o, n)
    \/ \E h \in Handles : accessorClose(h)
    \/ \E h1, h2 \in Handles : h1 < h2 /\ accessorSwap(h1, h2)
    \/ \E h \in Handles : accessorSeek(h, SIZE_MAX, "SEEK_SET")

Spec == Init /\ [][Next]_vars

\* ------------------------------------------------------------------------
\* Cursor work: a caller that opens one base at a time, positions, reads and
\* writes it, saves cursors up to MaxSavedCursor, and shares the base with
\* one sub-accessor in between
\* ------------------------------------------------------------------------
NoneOpen == \A i \in AccIds : ~acc[i].allocated
Alone == Cardinality({ i \in AccIds : acc[i].allocated }) <= 1

NextCursor ==
    \/ NoneOpen /\ accessorOpenReadingMemory(1, DataSize, TRUE, 1, ACCESSOR_UNTIL_END)
    \/ NoneOpen /\ accessorOpenWritingMemory(1, 0, 0, "ok")
    \/ \E n \in CountArgs : accessorOpenReadingAccessorBytes(2, 1, n)
    \/ accessorOpenReadingAccessorWindow(2, 1, 1, ACCESSOR_UNTIL_END)
    \/ \E h \in Handles : accessorClose(h)
    \/ ~Alone /\ accessorSwap(1, 2)
    \/ \E h \in Handles : accessorTruncate(h)
    \/ \E h \in Handles, o \in SeekArgs, w \in WhenceArgs :
          (Alone \/ o = 0) /\ accessorSeek(h, o, w)
    \/ \E h \in Handles, env \in MallocEnv :
          /\ Alone
          /\ handle[h] # ACCESSOR_INIT
          /\ acc[handle[h]].cursor <= MaxSavedCursor
          /\ accessorPushCursor(h, env)
    \/ \E h \in Handles : accessorPopCursor(h)
    \/ \E h \in Handles, n \in {1, 2} : accessorPopCursors(h, n, "pop")
    \/ \E h \in Handles : accessorDropCursor(h)
    \/ \E h \in Handles, n \in {1, 2} : accessorDropCursors(h, n)
    \/ \E h \in Handles : accessorReadEndianUInt(h, 1)
    \/ \E h \in Handles : accessorReadUIntN(h, 2)
    \/ \E h \in Handles, n \in {1, BigCount}, env \in MallocEnv :
          accessorReadArray(h, 2, 2, n, env)
    \/ \E h \in Handles : accessorReadBytes(h, 2)
    \/ \E h \in Handles, env \in MallocEnv : accessorReadFixedLengthString(h, 1, env)
    \/ \E h \in Handles, env \in MallocEnv : accessorReadPString(h, env)
    \/ \E h \in Handles : accessorGetPointerForBytesToRead(h, 1)
    \/ \E h \in Handles : accessorWriteEndianUInt(h, 1, 0)
    \/ \E h \in Handles : accessorWriteUIntN(h, 2, 0)
    \/ \E h \in Handles, n \in {1, BigCount} : accessorWriteArray(h, 2, n, 0)
    \/ \E h \in Handles : accessorWriteBytes(h, 2, 0)
    \/ \E h \in Handles, n \in {1, SIZE_MAX} : accessorGetPointerForBytesToWrite(h, n)
    \/ \E h \in Handles : accessorWriteCStringWithLength(h, 1, 0)

SpecCursor == Init /\ [][NextCursor]_vars

\* ------------------------------------------------------------------------
\* Cursor stack: a writer that seeks, truncates and saves cursors, and is
\* swapped with a reader
\* ------------------------------------------------------------------------
NextStack ==
    \/ \E h \in Handles :
          accessorOpenReadingMemory(h, DataSize, TRUE, DataSize, ACCESSOR_UNTIL_END)
    \/ \E h \in Handles :
          NoneOpen /\ accessorOpenWritingMemory(h, MaxInitialAllocation + 1, 0, "ok")
    \/ \E h \in Handles : accessorClose(h)
    \/ \E h1, h2 \in Handles : h1 < h2 /\ accessorSwap(h1, h2)
    \/ \E h \in Handles : accessorTruncate(h)
    \/ \E h \in Handles, o \in {0, 1, HeapLimit + 1}, w \in WhenceArgs :
          accessorSeek(h, o, w)
    \/ \E h \in Handles, env \in MallocEnv : accessorPushCursor(h, env)
    \/ \E h \in Handles : accessorPopCursor(h)
    \/ \E h \in Handles, n \in {1, 2} : accessorPopCursors(h, n, "pop")
    \/ \E h \in Handles : accessorDropCursor(h)
    \/ \E h \in Handles, n \in {1, 2} : accessorDropCursors(h, n)
    \/ \E h \in Handles : accessorWriteUIntN(h, 1, 0)

SpecStack == Init /\ [][NextStack]_vars

\* ------------------------------------------------------------------------
\* Writing: every kind of write, on writers, readers, sub-accessors and
\* swapped accessors
\* ------------------------------------------------------------------------
NextWrite ==
    \/ \E h \in Handles :
          accessorOpenReadingMemory(h, DataSize, TRUE, 1, ACCESSOR_UNTIL_END)
    \/ \E h \in Handles, env \in MallocEnv :
          NoneOpen /\ accessorOpenWritingMemory(h, 0, 0, env)
    \/ \E h, hs \in Handles : h # hs /\ accessorOpenReadingAccessorBytes(h, hs, 1)
    \/ \E h \in Handles : accessorClose(h)
    \/ \E h1, h2 \in Handles : h1 < h2 /\ accessorSwap(h1, h2)
    \/ \E h \in Handles : accessorTruncate(h)
    \/ \E h \in Handles, n \in {1, SizeofUIntMax + 1} : accessorWriteEndianUInt(h, n, 0)
    \/ \E h \in Handles : accessorWriteUIntN(h, 2, 0)
    \/ \E h \in Handles : accessorWriteArray(h, 2, 1, 0)
    \/ \E h \in Handles : accessorWriteBytes(h, 2, 0)
    \/ \E h \in Handles : accessorGetPointerForBytesToWrite(h, 1)
    \/ \E h \in Handles : accessorWriteCStringWithLength(h, 1, 0)

SpecWrite == Init /\ [][NextWrite]_vars

\* ------------------------------------------------------------------------
\* Coverage: one reading accessor, whose reads are recorded or not
\* ------------------------------------------------------------------------
NextCoverage ==
    \/ NoneOpen /\ accessorOpenReadingMemory(1, CoverageDataSize, TRUE, 0, ACCESSOR_UNTIL_END)
    \/ accessorClose(1)
    \/ \E option \in BOOLEAN : accessorAllowCoverage(1, option)
    \/ /\ handle[1] # ACCESSOR_INIT
       /\ acc[handle[1]].coverageSuspendCount < MaxSuspend
       /\ accessorSuspendCoverage(1)
    \/ accessorResumeCoverage(1)
    \/ \E usage1 \in {0, 1} : accessorSetCoverageUsage(1, usage1, 0)
    \/ accessorSeek(1, 0, "SEEK_SET")
    \/ accessorReadEndianUInt(1, 1)
    \/ accessorReadUIntN(1, 2)
    \/ accessorReadArray(1, 2, 2, 1, "ok")
    \/ accessorReadBytes(1, 1)
    \/ accessorReadFixedLengthString(1, 1, "ok")
    \/ accessorReadPString(1, "ok")
    \/ accessorGetPointerForBytesToRead(1, 2)
    \/ accessorReadVarInt(1)
    \/ accessorReadZigZagInt(1)

SpecCoverage == Init /\ [][NextCoverage]_vars

\* ------------------------------------------------------------------------
\* Summaries: one reading accessor whose coverage log the caller fills and
\* summarizes
\* ------------------------------------------------------------------------
NextSummarize ==
    \/ NoneOpen /\ accessorOpenReadingMemory(1, SummaryDataSize, TRUE, 0, ACCESSOR_UNTIL_END)
    \/ accessorClose(1)
    \/ accessorAllowCoverage(1, TRUE)
    \/ \E offset \in {0, 1}, count \in {1, 2, 3}, usage1 \in {1, 2} :
          accessorAddCoverageRecord(1, offset, count, usage1, 0, FALSE)
    \/ accessorSummarizeCoverage(1)

SpecSummarize == Init /\ [][NextSummarize]_vars

\* ------------------------------------------------------------------------
\* Look-ahead: one reading accessor on a window of a caller buffer
\* ------------------------------------------------------------------------
LookAheadBuffers == [ 1 .. DataSize + 1 -> {1, 2} ]
LookAheadLimits == {0, 1, DataSize + 2, ACCESSOR_UNTIL_END}
Delimiters == { << >>, <<2>>, <<1, 2>>, <<2, 2, 1>> }

NextLookAhead ==
    \/ /\ NoneOpen
       /\ \E bytes \in LookAheadBuffers, windowSize \in {DataSize - 1, ACCESSOR_UNTIL_END} :
             OpenReadingMemoryObject(1, bytes, Len(bytes), TRUE, 0, windowSize)
    \/ accessorClose(1)
    \/ \E offset \in {0, 1} : accessorSeek(1, offset, "SEEK_SET")
    \/ \E countLimit \in LookAheadLimits, delimiter \in Delimiters :
          accessorLookAheadCountBytesBeforeDelimiter(1, countLimit,
                                                     Len(delimiter), delimiter)

SpecLookAhead == Init /\ [][NextLookAhead]_vars

\* ------------------------------------------------------------------------
\* Seeking: one accessor, a writer whose storage holds data beyond its
\* truncated window, or a reader
\* ------------------------------------------------------------------------
SeekOffsets == {0, 1, 3, SIZE_MAX}

NextSeek ==
    \/ NoneOpen /\ accessorOpenWritingMemory(1, 0, 0, "ok")
    \/ NoneOpen /\ accessorOpenReadingMemory(1, DataSize, TRUE, 0, ACCESSOR_UNTIL_END)
    \/ accessorClose(1)
    \/ \E count \in {1, 2} : accessorWriteBytes(1, count, DataByte)
    \/ accessorTruncate(1)
    \/ \E offset \in SeekOffsets, whence \in WhenceArgs : accessorSeek(1, offset, whence)

SpecSeek == Init /\ [][NextSeek]_vars

\* ------------------------------------------------------------------------
\* Endianness
\* ------------------------------------------------------------------------
Endiannesses ==
    { "accessorBig", "accessorLittle", "accessorNative", "accessorReverse" }

\* the byte order accessorPrivateInitializeEndianness finds the host to
\* have: little-endian here
accessorPrivateNativeEndianness == "accessorLittle"

accessorOppositeEndianness(e) ==
    CASE e = "accessorBig" -> "accessorLittle"
      [] e = "accessorLittle" -> "accessorBig"
      [] e = "accessorNative" -> "accessorReverse"
      [] e = "accessorReverse" -> "accessorNative"

\* the two tables accessorPrivateInitializeEndianness fills
accessorPrivateIsBigEndianness(e) ==
    CASE e = "accessorBig" -> TRUE
      [] e = "accessorLittle" -> FALSE
      [] e = "accessorNative" -> accessorPrivateNativeEndianness = "accessorBig"
      [] e = "accessorReverse" ->
             accessorOppositeEndianness(accessorPrivateNativeEndianness) = "accessorBig"

accessorPrivateIsReverseEndianness(e) ==
    CASE e = "accessorBig" ->
             "accessorBig" = accessorOppositeEndianness(accessorPrivateNativeEndianness)
      [] e = "accessorLittle" ->
             "accessorLittle" = accessorOppositeEndianness(accessorPrivateNativeEndianness)
      [] e = "accessorNative" -> FALSE
      [] e = "accessorReverse" -> TRUE

accessorSetCurrentEndianness(h, e) ==
    /\ handle[h] # ACCESSOR_INIT
    /\ acc' = [ acc EXCEPT ![handle[h]].endianness = e ]
    /\ last' = Call("endianness", handle[h], 0, "Ok", 0)
    /\ UNCHANGED <<handle, store, fds>>

\* ------------------------------------------------------------------------
\* Integers at a pointer.  ptr is the sequence of the bytes that start at
\* the pointer: ptr[k + 1] is the C ptr[k].  A value of a type narrower than
\* uintmax_t is the uintmax_t it converts to: zero-extended when the type is
\* unsigned, sign-extended (two's complement) when it is signed.
\* ------------------------------------------------------------------------
\* (uintN_t) x and (intN_t) x for N = width
ToUnsigned(x, width) == x \cap (0 .. width - 1)
ToSigned(x, width) ==
    IF (width - 1) \in x
    THEN ToUnsigned(x, width) \cup (width .. UIntMaxBits - 1)
    ELSE ToUnsigned(x, width)

\* (uintmax_t) ptr[k]
ByteAt(ptr, k) == BitsOfByte(ptr[k + 1])

\* the two loops of accessorPrivateReadUIntAtPointer, from index i on
RECURSIVE ReadBigLoop(_, _, _, _)
ReadBigLoop(bytes, i, nbytes, result) ==
    IF i >= nbytes THEN result
    ELSE ReadBigLoop(bytes, i + 1, nbytes, BitOr(Shl(result, 8), ByteAt(bytes, i)))

RECURSIVE ReadLittleLoop(_, _, _, _)
ReadLittleLoop(bytes, i, nbytes, result) ==
    IF i >= nbytes THEN result
    ELSE ReadLittleLoop(bytes, i + 1, nbytes,
                        BitOr(result, Shl(ByteAt(bytes, i), i * 8)))

accessorPrivateReadUIntAtPointer(ptr, e, nbytes) ==
    IF accessorPrivateIsBigEndianness(e)
    THEN ReadBigLoop(ptr, 0, nbytes, {})
    ELSE ReadLittleLoop(ptr, 0, nbytes, {})

\* x <<= 8, times times
RECURSIVE ShlBytes(_, _)
ShlBytes(x, times) == IF times = 0 THEN x ELSE ShlBytes(Shl(x, 8), times - 1)

\* a signed read that leaves the bits above the sign bit clear
ReadIntWithoutSignExtension(ptr, e, nbytes) ==
    accessorPrivateReadUIntAtPointer(ptr, e, nbytes)

\* accessorPrivateReadIntAtPointer: the loops are those of the unsigned
\* read, and shift signBit and signExtension once per byte after the first
accessorPrivateReadIntAtPointer(ptr, e, nbytes) ==
    LET result == accessorPrivateReadUIntAtPointer(ptr, e, nbytes)
        times == IF nbytes = 0 THEN 0 ELSE nbytes - 1
        signBit == ShlBytes({7}, times)
        signExtension == ShlBytes(BitPositions \ (0 .. 7), times)
    IN IF BitAnd(result, signBit) # {}
       THEN BitOr(result, signExtension)
       ELSE result

\* a write that stores the least significant byte first whatever e is
WriteLittleAlways(x, e, nbytes) ==
    [ k \in 1 .. nbytes |-> ByteOfBits(Shr(x, 8 * (k - 1))) ]

\* the nbytes bytes accessorPrivateWriteUIntAtPointer stores
accessorPrivateWriteUIntAtPointer(x, e, nbytes) ==
    [ k \in 1 .. nbytes |->
        IF accessorPrivateIsBigEndianness(e)
        THEN ByteOfBits(Shr(x, 8 * (nbytes - k)))
        ELSE ByteOfBits(Shr(x, 8 * (k - 1))) ]

accessorPrivateReadUInt16AtPointer(ptr, e) ==
    IF accessorPrivateIsBigEndianness(e)
    THEN ToUnsigned(BitOr(Shl(ByteAt(ptr, 0), 8), ByteAt(ptr, 1)), 16)
    ELSE ToUnsigned(BitOr(Shl(ByteAt(ptr, 1), 8), ByteAt(ptr, 0)), 16)

accessorPrivateReadUInt24AtPointer(ptr, e) ==
    IF accessorPrivateIsBigEndianness(e)
    THEN ToUnsigned(BitOr(BitOr(Shl(ByteAt(ptr, 0), 16), Shl(ByteAt(ptr, 1), 8)),
                          ByteAt(ptr, 2)), 32)
    ELSE ToUnsigned(BitOr(BitOr(Shl(ByteAt(ptr, 2), 16), Shl(ByteAt(ptr, 1), 8)),
                          ByteAt(ptr, 0)), 32)

accessorPrivateReadUInt32AtPointer(ptr, e) ==
    IF accessorPrivateIsBigEndianness(e)
    THEN ToUnsigned(BitOr(BitOr(Shl(ByteAt(ptr, 0), 24), Shl(ByteAt(ptr, 1), 16)),
                          BitOr(Shl(ByteAt(ptr, 2), 8), ByteAt(ptr, 3))), 32)
    ELSE ToUnsigned(BitOr(BitOr(Shl(ByteAt(ptr, 3), 24), Shl(ByteAt(ptr, 2), 16)),
                          BitOr(Shl(ByteAt(ptr, 1), 8), ByteAt(ptr, 0))), 32)

accessorPrivateReadUInt64AtPointer(ptr, e) ==
    IF accessorPrivateIsBigEndianness(e)
    THEN BitOr(BitOr(BitOr(Shl(ByteAt(ptr, 0), 56), Shl(ByteAt(ptr, 1), 48)),
                     BitOr(Shl(ByteAt(ptr, 2), 40), Shl(ByteAt(ptr, 3), 32))),
               BitOr(BitOr(Shl(ByteAt(ptr, 4), 24), Shl(ByteAt(ptr, 5), 16)),
                     BitOr(Shl(ByteAt(ptr, 6), 8), ByteAt(ptr, 7))))
    ELSE BitOr(BitOr(BitOr(Shl(ByteAt(ptr, 7), 56), Shl(ByteAt(ptr, 6), 48)),
                     BitOr(Shl(ByteAt(ptr, 5), 40), Shl(ByteAt(ptr, 4), 32))),
               BitOr(BitOr(Shl(ByteAt(ptr, 3), 24), Shl(ByteAt(ptr, 2), 16)),
                     BitOr(Shl(ByteAt(ptr, 1), 8), ByteAt(ptr, 0))))

\* the signed readers compute the unsigned expression and convert it
accessorPrivateReadInt16AtPointer(ptr, e) ==
    ToSigned(accessorPrivateReadUInt16AtPointer(ptr, e), 16)

\* if (x & 0x800000) x |= 0xff000000
accessorPrivateReadInt24AtPointer(ptr, e) ==
    LET x == ToSigned(accessorPrivateReadUInt24AtPointer(ptr, e), 32) IN
    IF 23 \in x
    THEN ToSigned(BitOr(ToUnsigned(x, 32), 24 .. 31), 32)
    ELSE x

accessorPrivateReadInt32AtPointer(ptr, e) ==
    ToSigned(accessorPrivateReadUInt32AtPointer(ptr, e), 32)

accessorPrivateReadInt64AtPointer(ptr, e) ==
    ToSigned(accessorPrivateReadUInt64AtPointer(ptr, e), 64)

\* the byte swaps the writers use
accessorSwapUInt16(x) == ToUnsigned(BitOr(Shl(x, 8), Shr(x, 8)), 16)

accessorSwapUInt24(x) ==
    BitOr(BitOr(Shl(BitAnd(x, 0 .. 7), 16), BitAnd(x, 8 .. 15)),
          Shr(BitAnd(x, 16 .. 23), 16))

\* __builtin_bswap32 and __builtin_bswap64
accessorSwapUInt32(x) ==
    { 8 * (3 - (p \div 8)) + (p % 8) : p \in ToUnsigned(x, 32) }

accessorSwapUInt64(x) ==
    { 8 * (7 - (p \div 8)) + (p % 8) : p \in ToUnsigned(x, 64) }

\* the bytes the width-specialised writers store
accessorPrivateWriteUInt16AtPointer(x, e) ==
    LET y == IF accessorPrivateIsBigEndianness(e) THEN accessorSwapUInt16(x) ELSE x
    IN << ByteOfBits(y), ByteOfBits(Shr(y, 8)) >>

accessorPrivateWriteUInt24AtPointer(x, e) ==
    LET y == IF accessorPrivateIsBigEndianness(e) THEN accessorSwapUInt24(x) ELSE x
    IN << ByteOfBits(y), ByteOfBits(Shr(y, 8)), ByteOfBits(Shr(y, 16)) >>

accessorPrivateWriteUInt32AtPointer(x, e) ==
    LET y == IF accessorPrivateIsBigEndianness(e) THEN accessorSwapUInt32(x) ELSE x
    IN << ByteOfBits(y), ByteOfBits(Shr(y, 8)), ByteOfBits(Shr(y, 16)),
          ByteOfBits(Shr(y, 24)) >>

accessorPrivateWriteUInt64AtPointer(x, e) ==
    LET y == IF accessorPrivateIsBigEndianness(e) THEN accessorSwapUInt64(x) ELSE x
    IN << ByteOfBits(y), ByteOfBits(Shr(y, 8)), ByteOfBits(Shr(y, 16)),
          ByteOfBits(Shr(y, 24)), ByteOfBits(Shr(y, 32)), ByteOfBits(Shr(y, 40)),
          ByteOfBits(Shr(y, 48)), ByteOfBits(Shr(y, 56)) >>

\* ------------------------------------------------------------------------
\* Typed reads and writes with their values
\* ------------------------------------------------------------------------
\* The typed reads of n bytes on object i, with what they store in *x:
\* value, decoded from the n bytes at the cursor.  fn is the function family,
\* e the endianness argument, width the bytes of one integer; pre and post
\* are as in ReadObject.
ReadValueObject(i, fn, e, width, pre, n, post, value) ==
    LET a == acc[i]
        ReadCall(status, out) ==
            [ CallOut("read", i, 0, status, n, out) EXCEPT
                !.fn = fn, !.e = e, !.width = width ]
    IN
    IF pre # "Ok"
    THEN /\ last' = ReadCall(pre, {})
         /\ UNCHANGED <<handle, acc, store, fds>>
    ELSE IF a.availableBytes < n
    THEN /\ last' = ReadCall("BeyondEnd", {})
         /\ UNCHANGED <<handle, acc, store, fds>>
    ELSE IF post # "Ok"
    THEN /\ last' = ReadCall(post, {})
         /\ UNCHANGED <<handle, acc, store, fds>>
    ELSE /\ CovRoom(a)
         /\ acc' = [ acc EXCEPT ![i] = Consume(a, n) ]
         /\ last' = ReadCall("Ok", value)
         /\ UNCHANGED <<handle, store, fds>>

\* the widths of the specialised functions, in bytes of data, and the bits
\* of the C type that holds a value of that width (24 bits live in 32)
Widths == { 2, 3, 4, 8 }
TypeBits(width) == IF width = 3 THEN 32 ELSE 8 * width

accessorPrivateReadUIntNAtPointer(ptr, e, width) ==
    CASE width = 2 -> accessorPrivateReadUInt16AtPointer(ptr, e)
      [] width = 3 -> accessorPrivateReadUInt24AtPointer(ptr, e)
      [] width = 4 -> accessorPrivateReadUInt32AtPointer(ptr, e)
      [] width = 8 -> accessorPrivateReadUInt64AtPointer(ptr, e)

accessorPrivateReadIntNAtPointer(ptr, e, width) ==
    CASE width = 2 -> accessorPrivateReadInt16AtPointer(ptr, e)
      [] width = 3 -> accessorPrivateReadInt24AtPointer(ptr, e)
      [] width = 4 -> accessorPrivateReadInt32AtPointer(ptr, e)
      [] width = 8 -> accessorPrivateReadInt64AtPointer(ptr, e)

accessorPrivateWriteUIntNAtPointer(x, e, width) ==
    CASE width = 2 -> accessorPrivateWriteUInt16AtPointer(x, e)
      [] width = 3 -> accessorPrivateWriteUInt24AtPointer(x, e)
      [] width = 4 -> accessorPrivateWriteUInt32AtPointer(x, e)
      [] width = 8 -> accessorPrivateWriteUInt64AtPointer(x, e)

accessorSwapUIntN(x, width) ==
    CASE width = 2 -> accessorSwapUInt16(x)
      [] width = 4 -> accessorSwapUInt32(x)
      [] width = 8 -> accessorSwapUInt64(x)

\* the values the bytes never stored among the n bytes at the cursor of
\* object i can read as
IndetChoices(i, n) ==
    IF \E c \in IndetBytes : BytesAtCursor(i, n, c) # BytesAtCursor(i, n, 0)
    THEN IndetBytes
    ELSE {0}

\* accessorReadEndianUInt and accessorReadEndianInt with the value read
accessorReadEndianUIntValue(h, e, nbytes) ==
    /\ handle[h] # ACCESSOR_INIT
    /\ \E c \in IndetChoices(handle[h], nbytes) :
          ReadValueObject(handle[h], "UInt", e, nbytes,
              IF nbytes > SizeofUIntMax THEN "InvalidParameter" ELSE "Ok",
              nbytes, "Ok",
              accessorPrivateReadUIntAtPointer(BytesAtCursor(handle[h], nbytes, c), e, nbytes))

accessorReadEndianIntValue(h, e, nbytes) ==
    /\ handle[h] # ACCESSOR_INIT
    /\ \E c \in IndetChoices(handle[h], nbytes) :
          ReadValueObject(handle[h], "Int", e, nbytes,
              IF nbytes > SizeofUIntMax THEN "InvalidParameter" ELSE "Ok",
              nbytes, "Ok",
              accessorPrivateReadIntAtPointer(BytesAtCursor(handle[h], nbytes, c), e, nbytes))

\* accessorReadEndianUInt{16,24,32,64} and accessorReadEndianInt{16,24,32,64}
accessorReadEndianUIntNValue(h, e, width) ==
    /\ handle[h] # ACCESSOR_INIT
    /\ \E c \in IndetChoices(handle[h], width) :
          ReadValueObject(handle[h], "UIntN", e, width, "Ok", width, "Ok",
              accessorPrivateReadUIntNAtPointer(BytesAtCursor(handle[h], width, c), e, width))

accessorReadEndianIntNValue(h, e, width) ==
    /\ handle[h] # ACCESSOR_INIT
    /\ \E c \in IndetChoices(handle[h], width) :
          ReadValueObject(handle[h], "IntN", e, width, "Ok", width, "Ok",
              accessorPrivateReadIntNAtPointer(BytesAtCursor(handle[h], width, c), e, width))

\* an array of integers as one set: the 1 bits of element k (from 0) are
\* numbered from k * UIntMaxBits
ArrayValue(array) ==
    UNION { { UIntMaxBits * (k - 1) + p : p \in array[k] } : k \in 1 .. Len(array) }

\* element k (from 0) of an array of elements of width bytes
ElementAt(ptr, k, width) == [ j \in 1 .. width |-> ptr[k * width + j] ]

\* the elements accessorReadEndianUInt{16,32,64}Array leaves in dst: the
\* data copied as it is, each element swapped when e is not the host's
\* order; accessorReadEndianUInt24Array decodes each element
ReadUIntNArrayElements(ptr, e, width, count) ==
    [ k \in 1 .. count |->
        LET el == ElementAt(ptr, k - 1, width) IN
        IF width = 3
        THEN accessorPrivateReadUInt24AtPointer(el, e)
        ELSE LET dst == accessorPrivateReadUIntAtPointer(
                            el, accessorPrivateNativeEndianness, width)
             IN IF accessorPrivateIsReverseEndianness(e)
                THEN accessorSwapUIntN(dst, width)
                ELSE dst ]

ReadIntNArrayElements(ptr, e, width, count) ==
    [ k \in 1 .. count |->
        LET el == ElementAt(ptr, k - 1, width) IN
        IF width = 3
        THEN accessorPrivateReadInt24AtPointer(el, e)
        ELSE LET dst == accessorPrivateReadUIntAtPointer(
                            el, accessorPrivateNativeEndianness, width)
             IN IF accessorPrivateIsReverseEndianness(e)
                THEN ToSigned(accessorSwapUIntN(dst, width), TypeBits(width))
                ELSE ToSigned(dst, TypeBits(width)) ]

\* malloc of a result buffer the host can always hold unless env says no
MallocResult(env) == IF env = "mallocFail" THEN "OutOfMemory" ELSE "Ok"

accessorReadEndianUIntNArrayValue(h, e, width, count, env) ==
    /\ handle[h] # ACCESSOR_INIT
    /\ \E c \in IndetChoices(handle[h], Mul(count, width)) :
          ReadValueObject(handle[h], "UIntNArray", e, width, "Ok", Mul(count, width), MallocResult(env),
              ArrayValue(ReadUIntNArrayElements(BytesAtCursor(handle[h], Mul(count, width), c), e, width, count)))

accessorReadEndianIntNArrayValue(h, e, width, count, env) ==
    /\ handle[h] # ACCESSOR_INIT
    /\ \E c \in IndetChoices(handle[h], Mul(count, width)) :
          ReadValueObject(handle[h], "IntNArray", e, width, "Ok", Mul(count, width), MallocResult(env),
              ArrayValue(ReadIntNArrayElements(BytesAtCursor(handle[h], Mul(count, width), c), e, width, count)))

\* memcpy of bytes at offset off of block b
MemWriteBytes(b, off, bytes) ==
    IF b.state # "live" THEN b
    ELSE [ b EXCEPT !.bytes =
             [ k \in 1 .. Len(b.bytes) |->
                 IF off < k /\ k <= off + Len(bytes)
                 THEN bytes[k - off]
                 ELSE b.bytes[k] ] ]

\* what realloc can do for a typed write of n bytes on object i
ValueWriteOutcomes(i, n) ==
    LET a == acc[i] IN
    IF a.writeEnabled /\ a.availableBytes < n
       /\ GrowRequest(acc[a.baseAccessor], Add(a.cursor, n)) >= 0
    THEN {"ok", "fail"}
    ELSE {"none"}

\* The typed writes on object i with the bytes they store; wrote is what the
\* caller remembers of a write that succeeded.
WriteValueObject(i, pre, bytes, r, wrote) ==
    LET a == acc[i]
        bs == a.baseAccessor
        n == Len(bytes)
        g == accessorPrivateGrow(acc[bs], store[bs], Add(a.cursor, n), r)
        grow == a.availableBytes < n
    IN
    IF ~a.writeEnabled
    THEN /\ last' = Call("write", i, 0, "ReadOnlyError", 0)
         /\ UNCHANGED <<handle, acc, store, fds>>
    ELSE IF pre # "Ok"
    THEN /\ last' = Call("write", i, 0, pre, 0)
         /\ UNCHANGED <<handle, acc, store, fds>>
    ELSE IF grow /\ g.status # "Ok"
    THEN /\ store' = [ store EXCEPT ![bs] = g.b ]
         /\ last' = Call("write", i, 0, g.status, 0)
         /\ UNCHANGED <<handle, acc, fds>>
    ELSE LET acc1 == IF grow THEN [ acc EXCEPT ![bs] = g.a ] ELSE acc
             b1 == IF grow THEN g.b ELSE store[bs]
         IN /\ acc' = [ acc1 EXCEPT
                          ![i].cursor = Add(acc1[i].cursor, n),
                          ![i].availableBytes = Sub(acc1[i].availableBytes, n) ]
            /\ store' = [ store EXCEPT ![bs] =
                            MemWriteBytes(b1, Add(a.baseAccessorWindowOffset, a.cursor),
                                          bytes) ]
            /\ last' = [ Call("write", i, 0, "Ok", 0) EXCEPT !.wrote = wrote ]
            /\ UNCHANGED <<handle, fds>>

\* what the caller remembers of a typed write on object i: the function
\* family, the value, the endianness, the width, the number of elements
\* and the cursor it was written at
Wrote(kind, i, x, e, n, count) ==
    [ kind |-> kind, obj |-> i, x |-> x, e |-> e, n |-> n, count |-> count,
      at |-> acc[i].cursor ]

\* accessorWriteEndianUInt; accessorWriteEndianInt passes (uintmax_t) x to it
accessorWriteEndianUIntValue(h, x, e, nbytes) ==
    /\ handle[h] # ACCESSOR_INIT
    /\ LET pre == IF nbytes > SizeofUIntMax THEN "InvalidParameter" ELSE "Ok"
           bytes == IF pre = "Ok"
                    THEN accessorPrivateWriteUIntAtPointer(x, e, nbytes)
                    ELSE << >>
       IN \E r \in ValueWriteOutcomes(handle[h], nbytes) :
             WriteValueObject(handle[h], pre, bytes, r,
                              Wrote("UInt", handle[h], x, e, nbytes, 1))

\* accessorWriteEndianUInt{16,24,32,64}: x is converted to the parameter's type
accessorWriteEndianUIntNValue(h, x, e, width) ==
    /\ handle[h] # ACCESSOR_INIT
    /\ \E r \in ValueWriteOutcomes(handle[h], width) :
          WriteValueObject(handle[h], "Ok",
              accessorPrivateWriteUIntNAtPointer(ToUnsigned(x, TypeBits(width)), e, width),
              r, Wrote("UIntN", handle[h], ToUnsigned(x, TypeBits(width)), e, width, 1))

\* accessorWriteEndianInt{16,24,32,64}: x, of the signed parameter type, is
\* cast to the unsigned type of the same size
accessorWriteEndianIntNValue(h, x, e, width) ==
    /\ handle[h] # ACCESSOR_INIT
    /\ \E r \in ValueWriteOutcomes(handle[h], width) :
          WriteValueObject(handle[h], "Ok",
              accessorPrivateWriteUIntNAtPointer(ToUnsigned(x, TypeBits(width)), e, width),
              r, Wrote("IntN", handle[h], ToSigned(x, TypeBits(width)), e, width, 1))

\* the bytes accessorWriteEndian[U]Int{16,32,64}Array stores: the array as it
\* lies in the host's memory, the bytes of each element reversed when e is
\* not the host's order; accessorWriteEndian[U]Int24Array encodes each
\* element
RECURSIVE WriteUIntNArrayBytes(_, _, _)
WriteUIntNArrayBytes(array, e, width) ==
    IF array = << >> THEN << >>
    ELSE LET x == ToUnsigned(Head(array), TypeBits(width))
             host == accessorPrivateWriteUIntAtPointer(
                         x, accessorPrivateNativeEndianness, width)
             el == IF width = 3
                   THEN accessorPrivateWriteUInt24AtPointer(x, e)
                   ELSE IF accessorPrivateIsReverseEndianness(e)
                   THEN accessorPrivateWriteUIntNAtPointer(
                            accessorPrivateReadUIntNAtPointer(host, "accessorBig", width),
                            "accessorLittle", width)
                   ELSE host
         IN el \o WriteUIntNArrayBytes(Tail(array), e, width)

accessorWriteEndianUIntNArrayValue(h, array, e, width) ==
    /\ handle[h] # ACCESSOR_INIT
    /\ \E r \in ValueWriteOutcomes(handle[h], Mul(Len(array), width)) :
          WriteValueObject(handle[h], "Ok", WriteUIntNArrayBytes(array, e, width), r,
              Wrote("UIntNArray", handle[h],
                    ArrayValue([ k \in 1 .. Len(array) |->
                                   ToUnsigned(array[k], TypeBits(width)) ]),
                    e, width, Len(array)))

accessorWriteEndianIntNArrayValue(h, array, e, width) ==
    /\ handle[h] # ACCESSOR_INIT
    /\ \E r \in ValueWriteOutcomes(handle[h], Mul(Len(array), width)) :
          WriteValueObject(handle[h], "Ok", WriteUIntNArrayBytes(array, e, width), r,
              Wrote("IntNArray", handle[h],
                    ArrayValue([ k \in 1 .. Len(array) |->
                                   ToSigned(array[k], TypeBits(width)) ]),
                    e, width, Len(array)))

\* ------------------------------------------------------------------------
\* Integers: one writing accessor; a typed write at offset 0, a seek back
\* to 0, typed reads at offset 0
\* ------------------------------------------------------------------------
\* the integer whose bytes, least significant first, are bytes
PositionalValue(bytes) ==
    { p \in BitPositions :
        p \div 8 < Len(bytes) /\ (p % 8) \in BitsOfByte(bytes[(p \div 8) + 1]) }

\* two integers with eight different bytes each: the bytes of the first
\* have their top bit clear, those of the second have it set
PatternA == PositionalValue(<<1, 2, 3, 4, 5, 6, 7, 8>>)
PatternB == PositionalValue(<<241, 226, 211, 196, 181, 166, 151, 136>>)

\* the values written with a width of n bytes: the two patterns cut to n
\* bytes, the second one also as a negative number, and the first one whole
ValuesOfWidth(n) ==
    { ToUnsigned(PatternA, 8 * n), ToUnsigned(PatternB, 8 * n),
      ToSigned(PatternB, 8 * n), PatternA }

GenericWidths == 0 .. SizeofUIntMax + 1

\* the arrays written with elements of width bytes, as many elements as
\* size_t can count the bytes of
ArraysOfWidth(width) ==
    LET u == ToUnsigned(PatternB, 8 * width)
        s == ToSigned(PatternB, 8 * width)
        a == ToUnsigned(PatternA, 8 * width)
    IN IF 2 * width <= SIZE_MAX
       THEN { <<u, a>>, <<a, s>> }
       ELSE { <<u>>, <<s>> }

ArrayCounts(width) == { count \in {1, 2} : count * width <= SIZE_MAX }

\* the accessor is open and nothing was written to it yet
Fresh == handle[1] # ACCESSOR_INIT /\ acc[handle[1]].windowSize = 0

\* the accessor is open and was just sought back to offset 0
AtStart ==
    /\ handle[1] # ACCESSOR_INIT /\ acc[handle[1]].cursor = 0
    /\ last.op = "seek"

NextEndian ==
    \/ NoneOpen /\ accessorOpenWritingMemory(1, 0, 0, "ok")
    \/ accessorClose(1)
    \/ accessorSeek(1, 0, "SEEK_SET")
    \/ /\ Fresh
       /\ \E nbytes \in GenericWidths, e \in Endiannesses :
          \E x \in ValuesOfWidth(nbytes) : accessorWriteEndianUIntValue(1, x, e, nbytes)
    \/ /\ Fresh
       /\ \E width \in Widths, e \in Endiannesses :
          \E x \in ValuesOfWidth(width) : accessorWriteEndianUIntNValue(1, x, e, width)
    \/ /\ Fresh
       /\ \E width \in Widths, e \in Endiannesses :
          \E x \in ValuesOfWidth(width) : accessorWriteEndianIntNValue(1, x, e, width)
    \/ /\ Fresh
       /\ \E width \in Widths, e \in Endiannesses :
          \E array \in ArraysOfWidth(width) :
             accessorWriteEndianUIntNArrayValue(1, array, e, width)
    \/ /\ Fresh
       /\ \E width \in Widths, e \in Endiannesses :
          \E array \in ArraysOfWidth(width) :
             accessorWriteEndianIntNArrayValue(1, array, e, width)
    \/ /\ AtStart
       /\ \E nbytes \in GenericWidths, e \in Endiannesses :
             accessorReadEndianUIntValue(1, e, nbytes)
    \/ /\ AtStart
       /\ \E nbytes \in GenericWidths, e \in Endiannesses :
             accessorReadEndianIntValue(1, e, nbytes)
    \/ /\ AtStart
       /\ \E width \in Widths, e \in Endiannesses :
             accessorReadEndianUIntNValue(1, e, width)
    \/ /\ AtStart
       /\ \E width \in Widths, e \in Endiannesses :
             accessorReadEndianIntNValue(1, e, width)
    \/ /\ AtStart
       /\ \E width \in Widths, e \in Endiannesses, env \in MallocEnv :
          \E count \in ArrayCounts(width) :
             accessorReadEndianUIntNArrayValue(1, e, width, count, env)
    \/ /\ AtStart
       /\ \E width \in Widths, e \in Endiannesses, env \in MallocEnv :
          \E count \in ArrayCounts(width) :
             accessorReadEndianIntNArrayValue(1, e, width, count, env)

SpecEndian == Init /\ [][NextEndian]_vars

\* ------------------------------------------------------------------------
\* Variable-length integers: writes
\* ------------------------------------------------------------------------
\* the first loop of accessorWriteVarInt: the bytes tmp takes, after nbytes
RECURSIVE VarIntLength(_, _)
VarIntLength(tmp, nbytes) ==
    IF Shr(tmp, 7) # {}
    THEN VarIntLength(Shr(tmp, 7), nbytes + 1)
    ELSE nbytes + 1

\* the bytes the second loop and the last store of accessorWriteVarInt
\* write: nbytes - 1 bytes with the continuation bit, then the last one
VarIntBytes(x) ==
    LET nbytes == VarIntLength(x, 0) IN
    [ k \in 1 .. nbytes |->
        IF k < nbytes
        THEN ByteOfBits(BitOr(BitAnd(Shr(x, 7 * (k - 1)), 0 .. 6), {7}))
        ELSE ByteOfBits(BitAnd(Shr(x, 7 * (k - 1)), 0 .. 6)) ]

accessorWriteVarIntObject(i, kind, x, varint, r) ==
    WriteValueObject(i, "Ok", VarIntBytes(varint), r,
                     Wrote(kind, i, x, "", Len(VarIntBytes(varint)), 1))

accessorWriteVarIntValue(h, x) ==
    /\ handle[h] # ACCESSOR_INIT
    /\ \E r \in ValueWriteOutcomes(handle[h], Len(VarIntBytes(x))) :
          accessorWriteVarIntObject(handle[h], "VarInt", x, x, r)

\* x >= 0 ? (uintmax_t) x << 1 : ~((uintmax_t) x << 1)
ZigZagEncoding(x) ==
    IF (UIntMaxBits - 1) \notin x THEN Shl(x, 1) ELSE BitPositions \ Shl(x, 1)

accessorWriteZigZagIntValue(h, x) ==
    /\ handle[h] # ACCESSOR_INIT
    /\ \E r \in ValueWriteOutcomes(handle[h], Len(VarIntBytes(ZigZagEncoding(x)))) :
          accessorWriteVarIntObject(handle[h], "ZigZag", x, ZigZagEncoding(x), r)

\* ------------------------------------------------------------------------
\* Variable-length integers: a writing accessor that receives one varint
\* or zig-zag integer and is read back, or a reading accessor on bytes the
\* caller supplies
\* ------------------------------------------------------------------------
\* 2^k - 1 and 2^k
LowBits(k) == 0 .. k - 1
OneBit(k) == { k }

\* the integers written: around every boundary of 7 bits, the extremes of
\* 64 bits, the two patterns, small negative numbers
VarIntValues ==
    { LowBits(7 * k) : k \in 0 .. MaxVarIntBytes - 1 }
    \cup { OneBit(7 * k) : k \in 0 .. MaxVarIntBytes - 1 }
    \cup { BitPositions, LowBits(UIntMaxBits - 1), PatternA, PatternB,
           BitPositions \ LowBits(6), BitPositions \ {6} }

\* varints the caller supplies: a lone continuation byte, 2^63 and 2^64 - 1
\* in ten bytes, ten bytes with payload bits beyond bit 63, ten and eleven
\* bytes that all continue, 0 in eleven bytes
VarIntBuffers ==
    { <<128>>,
      <<128, 128, 128, 128, 128, 128, 128, 128, 128, 1>>,
      <<255, 255, 255, 255, 255, 255, 255, 255, 255, 1>>,
      <<128, 128, 128, 128, 128, 128, 128, 128, 128, 2>>,
      <<255, 255, 255, 255, 255, 255, 255, 255, 255, 127>>,
      <<128, 128, 128, 128, 128, 128, 128, 128, 128, 129>>,
      <<128, 128, 128, 128, 128, 128, 128, 128, 128, 128, 128>>,
      <<128, 128, 128, 128, 128, 128, 128, 128, 128, 128, 0>> }

\* the accessor is open with its cursor at offset 0, just opened or sought
Rewound ==
    /\ handle[1] # ACCESSOR_INIT /\ acc[handle[1]].cursor = 0
    /\ last.op \in {"open", "seek"}

NextVarInt ==
    \/ NoneOpen /\ accessorOpenWritingMemory(1, 0, 0, "ok")
    \/ /\ NoneOpen
       /\ \E bytes \in VarIntBuffers :
             OpenReadingMemoryObject(1, bytes, Len(bytes), TRUE, 0, ACCESSOR_UNTIL_END)
    \/ accessorClose(1)
    \/ accessorSeek(1, 0, "SEEK_SET")
    \/ Fresh /\ \E x \in VarIntValues : accessorWriteVarIntValue(1, x)
    \/ Fresh /\ \E x \in VarIntValues : accessorWriteZigZagIntValue(1, x)
    \/ Rewound /\ accessorReadVarInt(1)
    \/ Rewound /\ accessorReadZigZagInt(1)

SpecVarInt == Init /\ [][NextVarInt]_vars

\* ------------------------------------------------------------------------
\* Strings written with their length
\* ------------------------------------------------------------------------
\* The caller's str is a sequence of length + 1 units: the length units of
\* the string, then the unit a read of str[length] finds, which is the
\* terminator of a terminated string and anything at all when the
\* caller's array ends after length units.

\* the bytes of the units of str as they lie in the host's memory
RECURSIVE HostUnits(_, _)
HostUnits(str, width) ==
    IF str = << >> THEN << >>
    ELSE accessorPrivateWriteUIntAtPointer(ToUnsigned(Head(str), 8 * width),
                                           accessorPrivateNativeEndianness, width)
         \o HostUnits(Tail(str), width)

\* what realloc can do for a write of nbytes bytes through
\* accessorPrivateGetPointerForWrite on object i
StringWriteOutcomes(i, nbytes) ==
    LET a == acc[i]
        endOffset == Add(Add(a.baseAccessorWindowOffset, a.cursor), nbytes)
    IN IF a.writeEnabled /\ endOffset > a.windowSize
          /\ GrowRequest(acc[a.baseAccessor], endOffset) >= 0
       THEN {"ok", "fail"}
       ELSE {"none"}

\* The writes built on accessorPrivateGetPointerForWrite with the bytes
\* they store in the region they obtain.
WriteStringObject(i, bytes, r, wrote) ==
    LET a == acc[i]
        bs == a.baseAccessor
        p == accessorPrivateGetPointerForWrite(i, Len(bytes), r)
    IN
    IF ~a.writeEnabled
    THEN /\ last' = Call("write", i, 0, "ReadOnlyError", 0)
         /\ UNCHANGED <<handle, acc, store, fds>>
    ELSE IF p.status # "Ok"
    THEN /\ store' = [ store EXCEPT ![bs] = p.b ]
         /\ last' = Call("write", i, 0, p.status, 0)
         /\ UNCHANGED <<handle, acc, fds>>
    ELSE /\ acc' = p.acc
         /\ store' = [ store EXCEPT ![bs] = MemWriteBytes(p.b, p.offset, bytes) ]
         /\ last' = [ Call("write", i, 0, "Ok", 0) EXCEPT !.wrote = wrote ]
         /\ UNCHANGED <<handle, fds>>

\* the string the caller passed: its first length units
StringValue(str, length) == ArrayValue(SubSeq(str, 1, length))

\* accessorWriteCStringWithLength: memcpy of length chars, then ptr[length] = 0
CStringWithLengthBytes(str, length) ==
    HostUnits(SubSeq(str, 1, length), 1) \o << 0 >>

accessorWriteCStringWithLengthValue(h, str, length) ==
    /\ handle[h] # ACCESSOR_INIT
    /\ Add(length, 1) = length + 1
    /\ \E r \in StringWriteOutcomes(handle[h], Add(length, 1)) :
          WriteStringObject(handle[h], CStringWithLengthBytes(str, length), r,
              Wrote("CString", handle[h],
                    StringValue([ k \in 1 .. length |-> ToUnsigned(str[k], 8) ],
                                length),
                    accessorPrivateNativeEndianness, 1, length))

\* accessorWriteEndianString{16,32}WithLength: memcpy of length + 1 units
\* from str, then the first length units are swapped in place when e is
\* not the host's order
EndianStringWithLengthBytes(str, length, e, width) ==
    LET copied == HostUnits(SubSeq(str, 1, length + 1), width)
        unit(k) == ElementAt(copied, k, width)
        swapped(k) ==
            IF accessorPrivateIsReverseEndianness(e) /\ k < length
            THEN accessorPrivateWriteUIntNAtPointer(
                     accessorPrivateReadUIntNAtPointer(unit(k), "accessorBig", width),
                     "accessorLittle", width)
            ELSE unit(k)
    IN [ j \in 1 .. Len(copied) |-> swapped((j - 1) \div width)[((j - 1) % width) + 1] ]

accessorWriteEndianStringNWithLengthValue(h, str, length, e, width) ==
    /\ handle[h] # ACCESSOR_INIT
    /\ Mul(Add(length, 1), width) = (length + 1) * width
    /\ \E r \in StringWriteOutcomes(handle[h], Mul(Add(length, 1), width)) :
          WriteStringObject(handle[h],
              EndianStringWithLengthBytes(str, length, e, width), r,
              Wrote("StringN", handle[h],
                    StringValue([ k \in 1 .. length |->
                                    ToUnsigned(str[k], 8 * width) ], length),
                    e, width, length))

\* ------------------------------------------------------------------------
\* Strings: one writing accessor; a string written at offset 0 and, when
\* that one took a single byte, a second string written behind it
\* ------------------------------------------------------------------------
StringWidths == {2, 4}

\* the lengths of the strings of units of width bytes
StringLengths(width) ==
    { length \in 0 .. MaxStringLength : (length + 1) * width <= MaxStringBytes }

\* the strings of length units: the two patterns in turn, starting with
\* either, and the first pattern around a zero unit
StringsOfLength(length, width) ==
    LET a == ToUnsigned(PatternA, 8 * width)
        b == ToUnsigned(PatternB, 8 * width)
    IN { [ k \in 1 .. length |-> IF k % 2 = 1 THEN a ELSE b ],
         [ k \in 1 .. length |-> IF k % 2 = 1 THEN b ELSE a ],
         [ k \in 1 .. length |-> IF k % 2 = 1 THEN a ELSE {} ] }

\* the unit at str[length]: the terminator of a terminated string, or
\* what lies behind an array that ends after length units
UnitsBeyond(width) == { {}, ToUnsigned(PatternB, 8 * width), {0} }

\* the accessor holds a single byte and its cursor is behind it
Appending ==
    /\ handle[1] # ACCESSOR_INIT /\ last.op = "write"
    /\ acc[handle[1]].cursor = 1 /\ acc[handle[1]].windowSize = 1

NextString ==
    \/ NoneOpen /\ accessorOpenWritingMemory(1, 0, 0, "ok")
    \/ accessorClose(1)
    \/ /\ Fresh \/ Appending
       /\ \E length \in StringLengths(1) :
          \E s \in StringsOfLength(length, 1), beyond \in UnitsBeyond(1) :
             accessorWriteCStringWithLengthValue(1, s \o << beyond >>, length)
    \/ /\ Fresh \/ Appending
       /\ \E width \in StringWidths, e \in Endiannesses :
          \E length \in StringLengths(width) :
          \E s \in StringsOfLength(length, width), beyond \in UnitsBeyond(width) :
             accessorWriteEndianStringNWithLengthValue(1, s \o << beyond >>, length,
                                                       e, width)

SpecString == Init /\ [][NextString]_vars

\* ------------------------------------------------------------------------
\* Sub-views: a reading base (or a writer, which is refused) with its
\* coverage, endianness and cursor set in every way, sub-views opened on it
\* and on one another, accessors closed in any order
\* ------------------------------------------------------------------------
\* an offset that follows the cursor
RootOffsetAtCursor(i) ==
    Add(Add(acc[i].baseAccessorWindowOffset, acc[acc[i].baseAccessor].dataFileOffset),
        acc[i].cursor)

\* accessorRootWindowOffset on object i
accessorRootWindowOffset(i) ==
    Add(acc[i].baseAccessorWindowOffset, acc[acc[i].baseAccessor].dataFileOffset)

SubCounts == { 0, 1, DataSize + 1, ACCESSOR_UNTIL_END }
SubWindowOffsets == { 1, DataSize + 1 }
SubWindowSizes == { 1, ACCESSOR_UNTIL_END }
SubEndiannesses == { "accessorBig", "accessorReverse" }

\* handle 1 is open and the only accessor
OnlyFirst == handle[1] # ACCESSOR_INIT /\ Alone

\* the log of the super-to-be has room for one more record of the MaxSubLog
\* this caller lets it hold
SubLogRoom(hs) ==
    handle[hs] # ACCESSOR_INIT => Len(acc[handle[hs]].coverageArray) < MaxSubLog

NextSub ==
    \/ NoneOpen /\ accessorOpenReadingMemory(1, DataSize, TRUE, 1, ACCESSOR_UNTIL_END)
    \/ NoneOpen /\ accessorOpenWritingMemory(1, 0, 0, "ok")
    \/ \E option \in BOOLEAN :
          /\ OnlyFirst
          /\ acc[handle[1]].coverageEnabled # option
          /\ accessorAllowCoverage(1, option)
    \/ /\ OnlyFirst
       /\ acc[handle[1]].coverageSuspendCount < MaxSuspend
       /\ accessorSuspendCoverage(1)
    \/ /\ OnlyFirst
       /\ acc[handle[1]].coverageSuspendCount > 0
       /\ accessorResumeCoverage(1)
    \/ \E e \in SubEndiannesses :
          /\ OnlyFirst
          /\ acc[handle[1]].endianness = accessorPrivateDefaultEndianness
          /\ accessorSetCurrentEndianness(1, e)
    \/ \E o \in {0, 1} : accessorSeek(1, o, "SEEK_SET")
    \/ \E h, hs \in Handles, count \in SubCounts :
          SubLogRoom(hs) /\ accessorOpenReadingAccessorBytes(h, hs, count)
    \/ \E h, hs \in Handles, o \in SubWindowOffsets, n \in SubWindowSizes :
          accessorOpenReadingAccessorWindow(h, hs, o, n)
    \/ \E h \in Handles : accessorClose(h)

SpecSub == Init /\ [][NextSub]_vars

\* ------------------------------------------------------------------------
\* Root offsets: bases on memory and on a file, mapped or read, with a
\* window that starts anywhere in them; sub-views opened at the cursor or
\* on a window; cursors moved afterwards
\* ------------------------------------------------------------------------
RootOffsets == 0 .. FileSize - 1

NextRoot ==
    \/ /\ NoneOpen
       /\ \E o \in RootOffsets :
             accessorOpenReadingMemory(1, DataSize, TRUE, o, ACCESSOR_UNTIL_END)
    \/ /\ NoneOpen
       /\ \E o \in RootOffsets, env \in {"ok", "mmapFail"} :
             accessorOpenReadingFile(1, o, ACCESSOR_UNTIL_END, env)
    \/ \E h \in Handles, o \in RootOffsets : accessorSeek(h, o, "SEEK_SET")
    \/ \E h, hs \in Handles, count \in {0, 1, ACCESSOR_UNTIL_END} :
          accessorOpenReadingAccessorBytes(h, hs, count)
    \/ \E h, hs \in Handles, o \in RootOffsets, n \in {0, 1, ACCESSOR_UNTIL_END} :
          accessorOpenReadingAccessorWindow(h, hs, o, n)
    \/ \E h \in Handles : accessorClose(h)

SpecRoot == Init /\ [][NextRoot]_vars

\* ------------------------------------------------------------------------
\* Saved cursors: a reader that seeks anywhere in its window, saves up to
\* MaxLifo cursors and restores or drops any number of them
\* ------------------------------------------------------------------------
LifoCounts == 1 .. MaxLifo + 1

NextLifo ==
    \/ NoneOpen /\ accessorOpenReadingMemory(1, DataSize, TRUE, 0, ACCESSOR_UNTIL_END)
    \/ accessorClose(1)
    \/ \E o \in 0 .. DataSize + 1 : accessorSeek(1, o, "SEEK_SET")
    \/ \E env \in MallocEnv : accessorPushCursorWithin(1, env, MaxLifo)
    \/ accessorPopCursor(1)
    \/ \E n \in LifoCounts : accessorPopCursors(1, n, "pop")
    \/ accessorDropCursor(1)
    \/ \E n \in LifoCounts : accessorDropCursors(1, n)

SpecLifo == Init /\ [][NextLifo]_vars

\* ------------------------------------------------------------------------
\* Suspended coverage: one reader whose coverage is allowed or not,
\* suspended up to MaxNesting times and resumed any number of times,
\* between reads of every family
\* ------------------------------------------------------------------------
NextSuspend ==
    \/ NoneOpen /\ accessorOpenReadingMemory(1, CoverageDataSize, TRUE, 0, ACCESSOR_UNTIL_END)
    \/ accessorClose(1)
    \/ \E option \in BOOLEAN : accessorAllowCoverage(1, option)
    \/ /\ handle[1] # ACCESSOR_INIT
       /\ acc[handle[1]].coverageSuspendCount < MaxNesting
       /\ accessorSuspendCoverage(1)
    \/ accessorResumeCoverage(1)
    \/ accessorSeek(1, 0, "SEEK_SET")
    \/ accessorReadEndianUInt(1, 1)
    \/ accessorReadBytes(1, 1)
    \/ accessorGetPointerForBytesToRead(1, 2)
    \/ accessorReadVarInt(1)
    \/ accessorReadZigZagInt(1)

SpecSuspend == Init /\ [][NextSuspend]_vars

\* ------------------------------------------------------------------------
\* Coverage records added by the caller: one reader on a window of
\* CoverageDataSize bytes, coverage allowed or not, suspended or not
\* ------------------------------------------------------------------------
RecordOffsets == {0, CoverageDataSize, CoverageDataSize + 1}
RecordCounts == {0, 1, SIZE_MAX - 1, ACCESSOR_UNTIL_END}
RecordUsages == {1, 2}

NextRecord ==
    \/ NoneOpen /\ accessorOpenReadingMemory(1, CoverageDataSize, TRUE, 0, ACCESSOR_UNTIL_END)
    \/ accessorClose(1)
    \/ \E option \in BOOLEAN : accessorAllowCoverage(1, option)
    \/ /\ handle[1] # ACCESSOR_INIT
       /\ acc[handle[1]].coverageSuspendCount < MaxSuspend
       /\ accessorSuspendCoverage(1)
    \/ accessorResumeCoverage(1)
    \/ \E offset \in RecordOffsets, count \in RecordCounts,
          usage1 \in RecordUsages, forceOption \in BOOLEAN :
          accessorAddCoverageRecord(1, offset, count, usage1, 0, forceOption)

SpecRecord == Init /\ [][NextRecord]_vars

\* ------------------------------------------------------------------------
\* Frame: a writer and readers that are swapped and shared with sub-views,
\* under one operation of every family
\* ------------------------------------------------------------------------
FrameSeeks == {0, 1, SIZE_MAX}

\* The harness keeps its accessors near: it goes on with an accessor only
\* while its data is live and its window holds at most MaxFrame bytes (after
\* a seek to the far position it only closes it) ...
Near(h) ==
    /\ handle[h] # ACCESSOR_INIT
    /\ acc[handle[h]].windowSize <= MaxFrame
    /\ store[acc[handle[h]].baseAccessor].state = "live"

\* ... it works on a write-enabled accessor only while no other is open ...
Quiet(h) ==
    /\ Near(h)
    /\ Alone \/ ~acc[handle[h]].writeEnabled

\* ... and it opens a reader next to an accessor that is at the start of a
\* window of one byte and has saved no cursor yet
Settled ==
    \A i \in AccIds :
       acc[i].allocated => /\ acc[i].cursor = 0
                           /\ acc[i].windowSize = 1
                           /\ acc[i].cursorStackAllocation = 0
                           /\ acc[i].coverageArray = << >>

NextFrame ==
    \/ \E h \in Handles :
          /\ handle[h] = ACCESSOR_INIT
          /\ Settled
          /\ accessorOpenReadingMemory(h, DataSize, TRUE, 0, 1)
    \/ NoneOpen /\ accessorOpenWritingMemory(1, 0, 0, "ok")
    \/ Near(2) /\ accessorOpenReadingAccessorBytes(1, 2, 1)
    \/ Near(1) /\ accessorOpenReadingAccessorWindow(2, 1, 0, 1)
    \/ \E h \in Handles : accessorClose(h)
    \/ /\ Near(1) /\ Near(2)
       /\ acc[handle[1]].writeEnabled \/ acc[handle[2]].writeEnabled
       /\ accessorSwap(1, 2)
    \/ \E h \in Handles : Quiet(h) /\ accessorTruncate(h)
    \/ \E h \in Handles, offset \in FrameSeeks :
          Quiet(h) /\ accessorSeek(h, offset, "SEEK_SET")
    \/ Quiet(1) /\ accessorPushCursor(1, "ok")
    \/ Quiet(1) /\ accessorPopCursor(1)
    \/ \E h \in Handles : Quiet(h) /\ accessorReadEndianUInt(h, 1)
    \/ Near(2) /\ accessorLookAheadCountBytesBeforeDelimiter(2, ACCESSOR_UNTIL_END, 1, <<2>>)
    \/ /\ Near(2)
       /\ acc[handle[2]].coverageArray = << >>
       /\ accessorAddCoverageRecord(2, 0, 1, 1, 0, TRUE)
    \/ \E h \in Handles : Quiet(h) /\ accessorWriteUIntN(h, 1, 0)
    \/ \E h \in Handles : Quiet(h) /\ accessorGetPointerForBytesToWrite(h, 1)

SpecFrame == Init /\ [][NextFrame]_vars

\* ------------------------------------------------------------------------
\* Coverage of a window that shrinks: a writer or a reader whose reads and
\* records are logged, and which is truncated
\* ------------------------------------------------------------------------
NextTruncate ==
    \/ NoneOpen /\ accessorOpenWritingMemory(1, 0, 0, "ok")
    \/ NoneOpen /\ accessorOpenReadingMemory(1, CoverageDataSize, TRUE, 0, ACCESSOR_UNTIL_END)
    \/ accessorClose(1)
    \/ \E option \in BOOLEAN : accessorAllowCoverage(1, option)
    \/ \E offset \in {0, 1} : accessorSeek(1, offset, "SEEK_SET")
    \/ /\ handle[1] # ACCESSOR_INIT
       /\ acc[handle[1]].cursor < MaxFrame
       /\ accessorWriteUIntN(1, 1, 0)
    \/ accessorReadEndianUInt(1, 1)
    \/ \E offset \in {0, 1}, count \in {1, ACCESSOR_UNTIL_END} :
          accessorAddCoverageRecord(1, offset, count, 1, 0, FALSE)
    \/ accessorTruncate(1)

SpecTruncate == Init /\ [][NextTruncate]_vars

\* ------------------------------------------------------------------------
\* Merging: one reader whose log the caller fills with records that
\* overlap, touch, repeat, are empty or leave gaps, and summarizes
\* ------------------------------------------------------------------------
MergeOffsets == {0, 1, SummaryDataSize - 1}
MergeCounts == {0, 1, 2}
MergeUsages == {1, 2}

NextMerge ==
    \/ NoneOpen /\ accessorOpenReadingMemory(1, SummaryDataSize, TRUE, 0, ACCESSOR_UNTIL_END)
    \/ accessorClose(1)
    \/ accessorAllowCoverage(1, TRUE)
    \/ \E offset \in MergeOffsets, count \in MergeCounts, usage1 \in MergeUsages :
          accessorAddCoverageRecord(1, offset, count, usage1, 0, FALSE)
    \/ accessorSummarizeCoverage(1)

SpecMerge == Init /\ [][NextMerge]_vars

\* ------------------------------------------------------------------------
\* Counts of zero: one reader that seeks, saves and restores cursors, and
\* calls accessorPopCursors and accessorDropCursors with n = 0
\* ------------------------------------------------------------------------
NextZero ==
    \/ NoneOpen /\ accessorOpenReadingMemory(1, DataSize, TRUE, 0, ACCESSOR_UNTIL_END)
    \/ accessorClose(1)
    \/ \E offset \in 0 .. DataSize : accessorSeek(1, offset, "SEEK_SET")
    \/ accessorPushCursorWithin(1, "ok", MaxLifo)
    \/ accessorPopCursor(1)
    \/ accessorDropCursor(1)
    \/ accessorPopCursors(1, 0, "pop")
    \/ accessorDropCursors(1, 0)

SpecZero == Init /\ [][NextZero]_vars

\* ------------------------------------------------------------------------
\* Properties
\* ------------------------------------------------------------------------
Open == { i \in AccIds : acc[i].allocated }
HeapUnchanged == UNCHANGED <<handle, acc, store, fds>>

\* C1: the window of every open accessor lies inside the storage of its base:
\* baseAccessorWindowOffset + windowSize <= dataMaxSize of the base, whatever
\* arguments the accessor was opened with and whatever grew the base.
C1_WindowInsideStorage ==
    \A i \in Open :
        acc[i].baseAccessorWindowOffset + acc[i].windowSize
            <= acc[acc[i].baseAccessor].dataMaxSize

\* C2: in every accessor, after any sequence of operations, the cursor is
\* inside the window and availableBytes is windowSize - cursor.
C2_CursorInsideWindow ==
    \A i \in Open :
        /\ acc[i].cursor <= acc[i].windowSize
        /\ acc[i].availableBytes = acc[i].windowSize - acc[i].cursor

\* a write has succeeded in the middle of a window: the cursor has advanced
\* and bytes remain after it
C2_Witness ==
    /\ last.op = "write"
    /\ last.status = "Ok"
    /\ acc[last.a].cursor > 0
    /\ acc[last.a].availableBytes > 0

\* C3: the storage of a base is released exactly once, and only when the base
\* and all its sub-accessors are closed: no block is released twice, and
\* every open accessor has an open base whose storage is still there.
C3_StorageReleasedOnce ==
    /\ \A i \in AccIds : store[i].frees <= 1
    /\ \A i \in Open :
          /\ acc[i].baseAccessor \in Open
          /\ acc[acc[i].baseAccessor].data # 0
                => store[acc[i].baseAccessor].state = "live"

\* C4: a read that needs more bytes than availableBytes returns BeyondEnd
\* and changes nothing.
C4_ShortReadRejected ==
    [][ (last'.op = "read" /\ acc[last'.a].availableBytes < last'.need)
            => (last'.status = "BeyondEnd" /\ HeapUnchanged) ]_vars

\* C5: a seek, pop, drop, push or write that does not return Ok leaves the
\* cursor, availableBytes, windowSize, coverage log and cursor stack of its
\* accessor as they were.
C5_FailureChangesNothing ==
    [][ (last'.op \in {"seek", "pop", "drop", "push", "write"} /\ last'.status # "Ok")
            => /\ acc'[last'.a].cursor = acc[last'.a].cursor
               /\ acc'[last'.a].availableBytes = acc[last'.a].availableBytes
               /\ acc'[last'.a].windowSize = acc[last'.a].windowSize
               /\ acc'[last'.a].coverageArray = acc[last'.a].coverageArray
               /\ acc'[last'.a].cursorStack = acc[last'.a].cursorStack
               /\ acc'[last'.a].cursorStackSize = acc[last'.a].cursorStackSize ]_vars

C7_SwapStep ==
    /\ \E h1, h2 \in Handles :
          /\ h1 # h2
          /\ handle[h1] = last'.a
          /\ handle[h2] = last'.b
          /\ handle' = [ handle EXCEPT ![h1] = last'.b, ![h2] = last'.a ]
    /\ (last'.a # 0 /\ last'.b # 0) =>
          /\ acc'[last'.a].writeEnabled =
                (acc[last'.a].writeEnabled /\ acc[last'.b].writeEnabled)
          /\ acc'[last'.b].writeEnabled =
                (acc[last'.a].writeEnabled /\ acc[last'.b].writeEnabled)
    /\ \A i \in Open : acc'[i].writeOnClose = acc[i].writeOnClose

C7_SwapMakesReadOnly ==
    [][ /\ last'.op = "swap" => C7_SwapStep
        /\ \A i \in Open :
              (acc'[i].allocated /\ ~acc[i].writeEnabled) => ~acc'[i].writeEnabled ]_vars

\* a file writer has been swapped with a reader: it is read-only and still
\* written on close
C7_Witness ==
    /\ last.op = "swap"
    /\ last.a # 0
    /\ last.b # 0
    /\ \E i \in {last.a, last.b} :
          acc[i].writeOnClose /\ acc[i].mayBeReallocated /\ ~acc[i].writeEnabled

\* C8: a sub-accessor is never write-enabled, and opening a sub-accessor on
\* a write-enabled accessor returns InvalidParameter, creates nothing and
\* leaves that accessor alone.
C8_SubNeverWriteEnabled ==
    [][ /\ \A i \in AccIds :
              (acc'[i].allocated /\ ~acc'[i].isBaseAccessor) => ~acc'[i].writeEnabled
        /\ (last'.op = "openSub" /\ acc[last'.b].writeEnabled)
              => (last'.status = "InvalidParameter" /\ HeapUnchanged) ]_vars

\* a sub-accessor was asked of a write-enabled accessor
C8_Witness ==
    /\ last.op = "openSub"
    /\ last.status = "InvalidParameter"
    /\ acc[last.b].writeEnabled

\* C9: the byte range of a sub-accessor lies inside the window of the
\* accessor it was opened on: windowOffset + windowSize <= windowSize of the
\* super-accessor.
C9_SubInsideSuper ==
    \A i \in Open :
        ~acc[i].isBaseAccessor =>
            acc[i].windowOffset + acc[i].windowSize
                <= acc[acc[i].superAccessor].windowSize

\* C10: a close that cannot flush returns WriteError and still closes the
\* descriptors and frees the memory of the accessor.
C10_FailedFlushStillReleases ==
    (last.op = "close" /\ last.status = "WriteError") =>
        /\ ~acc[last.a].allocated
        /\ fds[last.a].out # "open"
        /\ store[last.a].state # "live"

\* C11: a successful read made while coverage is enabled and not suspended
\* appends exactly one record: offset = the cursor before the read, size =
\* the bytes the read consumed, and the current usage1 and usage2; a read
\* made while coverage is disabled or suspended appends nothing.
C11_ReadRecordsCoverage ==
    [][ (last'.op = "read" /\ last'.status = "Ok") =>
          LET a == acc[last'.a]
              a2 == acc'[last'.a]
          IN a2.coverageArray =
                IF CoverageActive(a)
                THEN Append(a.coverageArray,
                            [ offset |-> a.cursor,
                              size |-> a2.cursor - a.cursor,
                              usage1 |-> a.coverageUsage1,
                              usage2 |-> a.coverageUsage2 ])
                ELSE a.coverageArray ]_vars

\* the coverage array is strictly sorted by the default key
StrictlySorted(array) ==
    \A k \in 1 .. Len(array) - 1 :
        accessorPrivateCoverageCompare(array[k], array[k + 1]) < 0

\* C12: summarizing is idempotent: summarizing a log that was just
\* summarized leaves exactly the same sequence of records.
C12_SummarizeIdempotent ==
    last.op = "summarize" =>
        Summarized(acc[last.a].coverageArray) = acc[last.a].coverageArray

\* C13: after accessorSummarizeCoverage with the default compare and merge
\* the record array is strictly sorted by the default key: increasing
\* offset, then decreasing size, then increasing usage1, then usage2.
C13_SummarySorted ==
    last.op = "summarize" => StrictlySorted(acc[last.a].coverageArray)

\* the delimiter occurs count bytes after the cursor of object i, entirely
\* inside the available bytes
Occurs(i, count, delimiter) ==
    /\ count + Len(delimiter) <= acc[i].availableBytes
    /\ \A k \in 1 .. Len(delimiter) :
          store[acc[i].baseAccessor].bytes[
              acc[i].baseAccessorWindowOffset + acc[i].cursor + count + k]
            = delimiter[k]

\* what the look-ahead has to answer on object i
LookAheadAnswer(i, countLimit, delimiter) ==
    LET limit == IF countLimit = ACCESSOR_UNTIL_END
                 THEN acc[i].availableBytes - Len(delimiter) ELSE countLimit
        found == { n \in 0 .. acc[i].availableBytes : Occurs(i, n, delimiter) }
        first == CHOOSE n \in found : \A o \in found : n <= o
    IN IF Len(delimiter) = 0 THEN [ status |-> "InvalidParameter", out |-> 0 ]
       ELSE IF found # {} /\ first <= limit THEN [ status |-> "Ok", out |-> first ]
       ELSE [ status |-> "BeyondEnd", out |-> 0 ]

\* C14: accessorLookAheadCountBytesBeforeDelimiter answers Ok with count c
\* exactly when the first occurrence of the delimiter inside the available
\* bytes starts c bytes after the cursor and c <= limit; otherwise it
\* answers BeyondEnd (InvalidParameter when the delimiter is empty); this
\* for every limit and whatever the bytes beyond the window are; the cursor
\* does not move.
C14_LookAheadInsideWindow ==
    [][ \A countLimit \in LookAheadLimits, delimiter \in Delimiters :
          accessorLookAheadCountBytesBeforeDelimiter(1, countLimit,
                                                     Len(delimiter), delimiter)
            => /\ last'.status = LookAheadAnswer(handle[1], countLimit, delimiter).status
               /\ last'.out = {LookAheadAnswer(handle[1], countLimit, delimiter).out}
               /\ UNCHANGED acc ]_vars

\* the position a seek of object i asks for
SeekTarget(i, offset, whence) ==
    CASE whence = "SEEK_SET" -> offset
      [] whence = "SEEK_CUR" -> Add(acc[i].cursor, offset)
      [] whence = "SEEK_END" -> Add(acc[i].windowSize, offset)
      [] OTHER -> 0

\* C15: a seek of a write-enabled accessor to a position p beyond windowSize
\* succeeds unless memory runs out, and then cursor = windowSize = p, the
\* bytes of [old windowSize, p) are stored and zero and the bytes below the
\* old windowSize are unchanged; on an accessor that is not write-enabled
\* such a seek returns BeyondEnd; a whence other than SET, CUR, END returns
\* InvalidParameter.
C15_SeekExtendsWithZeros ==
    [][ \A offset \in SeekOffsets, whence \in WhenceArgs :
          accessorSeek(1, offset, whence) =>
            LET i == handle[1]
                p == SeekTarget(i, offset, whence)
                old == acc[i].windowSize
                bs == acc[i].baseAccessor
            IN
            /\ whence \notin {"SEEK_SET", "SEEK_CUR", "SEEK_END"}
                  => last'.status = "InvalidParameter"
            /\ (whence \in {"SEEK_SET", "SEEK_CUR", "SEEK_END"} /\ p > old) =>
                  IF ~acc[i].writeEnabled THEN last'.status = "BeyondEnd"
                  ELSE /\ last'.status \in {"Ok", "OutOfMemory"}
                       /\ last'.status = "Ok" =>
                             /\ acc'[i].cursor = p
                             /\ acc'[i].windowSize = p
                             /\ store'[bs].state = "live"
                             /\ Len(store'[bs].bytes) >= p
                             /\ \A k \in 1 .. p :
                                   store'[bs].bytes[k] =
                                     IF k <= old THEN store[bs].bytes[k] ELSE 0 ]_vars

\* the endiannesses that put the most significant byte first on this host
BigLike(e) ==
    \/ e = "accessorBig"
    \/ e = "accessorNative" /\ accessorPrivateNativeEndianness = "accessorBig"
    \/ e = "accessorReverse" /\ accessorPrivateNativeEndianness = "accessorLittle"

ReverseBytes(bytes) == [ k \in 1 .. Len(bytes) |-> bytes[Len(bytes) + 1 - k] ]

\* the positional value of bytes read with endianness e
ValueOfBytes(bytes, e) ==
    IF BigLike(e) THEN PositionalValue(ReverseBytes(bytes)) ELSE PositionalValue(bytes)

\* the n-byte two's-complement number x extended to the full width
SignExtended(x, n) ==
    IF (8 * n - 1) \in x THEN x \cup (8 * n .. UIntMaxBits - 1) ELSE x

\* the n bytes of object i that start at offset at of its window
WindowBytes(i, at, n) ==
    LET a == acc[i] IN
    [ k \in 1 .. n |->
        ReadByte(store[a.baseAccessor], a.baseAccessorWindowOffset + at + k - 1, 0) ]

\* the bytes the last read consumed
BytesRead == WindowBytes(last.a, acc[last.a].cursor - last.need, last.need)

\* C16: for every width n in 1..8 and every endianness, a generic unsigned
\* read returns the positional value of the n bytes at the cursor (first
\* byte most significant for big-like, least significant for little-like
\* endiannesses), a generic signed read returns that value sign-extended
\* from n bytes, and the 16/24/32/64-bit readers and writers return and
\* store what the generic path does for n = 2/3/4/8.
C16_EndianValues ==
    /\ last.op = "read" /\ last.status = "Ok"
          /\ last.fn \in {"UInt", "Int"} /\ last.need \in 1 .. SizeofUIntMax
       => last.out =
            IF last.fn = "UInt"
            THEN ValueOfBytes(BytesRead, last.e)
            ELSE SignExtended(ValueOfBytes(BytesRead, last.e), last.need)
    /\ last.op = "read" /\ last.status = "Ok" /\ last.fn \in {"UIntN", "IntN"}
       => last.out =
            IF last.fn = "UIntN"
            THEN accessorPrivateReadUIntAtPointer(BytesRead, last.e, last.need)
            ELSE accessorPrivateReadIntAtPointer(BytesRead, last.e, last.need)
    /\ last.op = "write" /\ last.status = "Ok"
          /\ last.wrote.kind \in {"UIntN", "IntN"}
       => WindowBytes(last.a, last.wrote.at, last.wrote.n) =
            accessorPrivateWriteUIntAtPointer(last.wrote.x, last.wrote.e, last.wrote.n)

\* a read of three bytes returned a negative number
C16_Witness ==
    /\ last.op = "read" /\ last.status = "Ok" /\ last.need = 3
    /\ last.fn = "IntN" /\ last.e = "accessorBig"
    /\ (UIntMaxBits - 1) \in last.out

\* element k (from 1) of an array held as one set
ElementOf(x, k) ==
    { p - UIntMaxBits * (k - 1) :
        p \in { q \in x : UIntMaxBits * (k - 1) <= q /\ q < UIntMaxBits * k } }

\* x is an unsigned, a signed number of n bytes
FitsUnsigned(x, n) == x \subseteq 0 .. 8 * n - 1
FitsSigned(x, n) == x = SignExtended(x \cap (0 .. 8 * n - 1), n)

\* the last call is the read that matches the remembered write: same
\* accessor, same offset, same family, endianness, width and count, of a
\* value that fits the width
ReadsBackWrite ==
    LET w == last.wrote IN
    /\ last.op = "read" /\ w.kind # "none"
    /\ w.obj = last.a /\ w.at = 0 /\ w.e = last.e
    /\ w.n \in 1 .. SizeofUIntMax /\ last.width = w.n
    /\ last.need = w.n * w.count
    /\ \/ w.kind = "UInt" /\ last.fn = "UInt" /\ FitsUnsigned(w.x, w.n)
       \/ w.kind = "UInt" /\ last.fn = "Int" /\ FitsSigned(w.x, w.n)
       \/ w.kind = "UIntN" /\ last.fn = "UIntN" /\ FitsUnsigned(w.x, w.n)
       \/ w.kind = "IntN" /\ last.fn = "IntN" /\ FitsSigned(w.x, w.n)
       \/ /\ w.kind = "UIntNArray" /\ last.fn = "UIntNArray"
          /\ \A k \in 1 .. w.count : FitsUnsigned(ElementOf(w.x, k), w.n)
       \/ /\ w.kind = "IntNArray" /\ last.fn = "IntNArray"
          /\ \A k \in 1 .. w.count : FitsSigned(ElementOf(w.x, k), w.n)

\* C17: a value that fits in n bytes, written at offset 0 with endianness e
\* by a generic or width-specialised, signed or unsigned, scalar or array
\* write, is returned by the matching read made with the same e and n
\* after a seek to 0, and the read leaves the cursor after the bytes
\* written (the result buffer of an array read being available).
C17_RoundTrip ==
    ReadsBackWrite /\ last.status # "OutOfMemory"
      => /\ last.status = "Ok"
         /\ last.out = last.wrote.x
         /\ acc[last.a].cursor = last.need

\* a negative 24-bit number came back from a round trip in reverse order
C17_Witness ==
    /\ ReadsBackWrite /\ last.status = "Ok"
    /\ last.fn = "IntN" /\ last.need = 3 /\ last.e = "accessorReverse"
    /\ (UIntMaxBits - 1) \in last.out

\* the last call is the varint (zig-zag) read of the varint (zig-zag
\* integer) the caller wrote at offset 0 of the same accessor
ReadsBackVarInt ==
    /\ last.op = "read" /\ last.wrote.kind \in {"VarInt", "ZigZag"}
    /\ last.fn = last.wrote.kind
    /\ last.wrote.obj = last.a /\ last.wrote.at = 0

\* C18: reading back, from the offset it was written at, the varint of an
\* unsigned x or the zig-zag integer of a signed x returns Ok and x, and
\* consumes exactly the bytes the write stored.
C18_VarIntRoundTrip ==
    ReadsBackVarInt
      => /\ last.status = "Ok"
         /\ last.out = last.wrote.x
         /\ last.need = last.wrote.n
         /\ acc[last.a].cursor = last.wrote.n

\* the most negative integer came back from its ten bytes
C18_Witness ==
    /\ ReadsBackVarInt /\ last.status = "Ok"
    /\ last.fn = "ZigZag" /\ last.need = MaxVarIntBytes
    /\ last.out = { UIntMaxBits - 1 }

\* the bytes of the window of the accessor a varint was last read from
Encoding == WindowBytes(last.a, 0, acc[last.a].windowSize)

\* the index of the first byte of bytes without the continuation bit, 0
\* when every byte has it
Terminator(bytes) ==
    IF \E k \in 1 .. Len(bytes) : bytes[k] < 128
    THEN CHOOSE k \in 1 .. Len(bytes) :
            bytes[k] < 128 /\ \A j \in 1 .. k - 1 : bytes[j] >= 128
    ELSE 0

\* the 1 bits of the LEB128 value of the first n bytes of bytes, at their
\* true positions
Payload(bytes, n) ==
    { 7 * (k - 1) + p : k \in 1 .. n, p \in 0 .. 6 } \cap
    { q \in 0 .. 7 * n - 1 : (q % 7) \in BitsOfByte(bytes[(q \div 7) + 1] % 128) }

\* C19: a varint read at offset 0 returns Ok only if the encoding ends
\* within ten bytes and none of its payload bits lies at position 64 or
\* above, and then returns exactly the encoded value; otherwise it returns
\* an error and leaves the cursor at 0.
C19_VarIntOverflowRejected ==
    last.op = "read" /\ last.fn = "VarInt"
      => LET k == Terminator(Encoding) IN
         IF last.status = "Ok"
         THEN /\ k \in 1 .. MaxVarIntBytes
              /\ Payload(Encoding, k) \subseteq BitPositions
              /\ last.out = Payload(Encoding, k)
         ELSE acc[last.a].cursor = 0

\* a string was just written with its length
WroteString ==
    /\ last.op = "write" /\ last.status = "Ok"
    /\ last.wrote.kind \in {"CString", "StringN"}

\* the units of width n stored from offset at of the window of object i,
\* read in the byte order e
UnitsStored(i, at, count, n, e) ==
    LET bytes == WindowBytes(i, at, count * n) IN
    [ k \in 1 .. count |-> ValueOfBytes(ElementAt(bytes, k - 1, n), e) ]

\* C20: a string write with a length stores, from the cursor, the first
\* length units of str in the requested byte order, then one unit that is
\* zero whatever lies at str[length], and leaves the cursor length + 1
\* units further.
C20_WithLengthTerminated ==
    WroteString
      => LET w == last.wrote
             units == UnitsStored(w.obj, w.at, w.count + 1, w.n, w.e)
         IN /\ ArrayValue(SubSeq(units, 1, w.count)) = w.x
            /\ units[w.count + 1] = {}
            /\ acc[w.obj].cursor = w.at + (w.count + 1) * w.n

\* what a sub-view opened on object s starts with
SubStarts(i, s) ==
    /\ acc'[i].cursor = 0
    /\ ~acc'[i].coverageEnabled
    /\ acc'[i].endianness = acc[s].endianness

\* what accessorOpenReadingAccessorBytes(&handle[h], handle[hs], count) owes
BytesOpened(h, hs, count) ==
    LET s == handle[hs]
        supera == acc[s]
        n == IF count = ACCESSOR_UNTIL_END THEN supera.availableBytes ELSE count
    IN IF last'.status = "Ok"
       THEN /\ acc'[s].cursor = supera.cursor + n
            /\ acc'[s].coverageArray =
                 IF supera.coverageEnabled /\ supera.coverageSuspendCount = 0
                 THEN Append(supera.coverageArray,
                             [ offset |-> supera.cursor, size |-> n,
                               usage1 |-> supera.coverageUsage1,
                               usage2 |-> supera.coverageUsage2 ])
                 ELSE supera.coverageArray
            /\ SubStarts(handle'[h], s)
       ELSE acc'[s] = supera

\* what accessorOpenReadingAccessorWindow(&handle[h], handle[hs], ...) owes
WindowOpened(h, hs) ==
    LET s == handle[hs]
        supera == acc[s]
    IN IF last'.status = "Ok"
       THEN /\ acc'[s].cursor = supera.cursor
            /\ acc'[s].availableBytes = supera.availableBytes
            /\ acc'[s].coverageArray = supera.coverageArray
            /\ SubStarts(handle'[h], s)
       ELSE acc'[s] = supera

\* C21: opening a sub-view of count bytes advances the cursor of super by
\* count and, when the coverage of super is enabled and not suspended,
\* appends the one record [old cursor, count) to its log; opening a
\* sub-view on a window leaves the cursor, the available bytes and the log
\* of super as they were; either sub-view starts at cursor 0 with coverage
\* disabled and the endianness of super; a call that fails leaves super,
\* its reference count included, as it was.
C21_SubOpenFrame ==
    [][ \A h, hs \in Handles :
          /\ \A count \in SubCounts :
                accessorOpenReadingAccessorBytes(h, hs, count)
                   => BytesOpened(h, hs, count)
          /\ \A o \in SubWindowOffsets, n \in SubWindowSizes :
                accessorOpenReadingAccessorWindow(h, hs, o, n)
                   => WindowOpened(h, hs) ]_vars

\* a sub-view of one byte was opened at cursor 1 of a super that records
\* coverage and reads big-endian
C21_Witness ==
    /\ last.op = "openSub" /\ last.status = "Ok"
    /\ acc[last.a].windowOffset = 1 /\ acc[last.a].windowSize = 1
    /\ acc[last.a].endianness = "accessorBig"
    /\ acc[last.b].cursor = 2
    /\ acc[last.b].coverageArray # << >>
    /\ acc[last.b].coverageArray[Len(acc[last.b].coverageArray)].offset = 1
    /\ acc[last.b].coverageArray[Len(acc[last.b].coverageArray)].size = 1

SavedCursors(i) == SubSeq(acc[i].cursorStack, 1, acc[i].cursorStackSize)

\* object a after accessorDropCursors(a, n), n at most the saved cursors
Dropped(a, n) == [ a EXCEPT !.cursorStackSize = a.cursorStackSize - n ]

\* object a, of a window that holds the cursor saved last, after
\* accessorPopCursor(a)
Popped(a) ==
    [ a EXCEPT !.cursor = a.cursorStack[a.cursorStackSize],
               !.availableBytes = a.windowSize - a.cursorStack[a.cursorStackSize],
               !.cursorStackSize = a.cursorStackSize - 1 ]

\* the call left object i as it was and returned InvalidParameter
RefusedStackCall(i) ==
    /\ last'.status = "InvalidParameter"
    /\ acc'[i] = acc[i]

\* C23: on a reader, a push saves the cursor above those saved before and
\* a seek leaves them alone; popCursor restores the cursor saved last and
\* removes it, so that successive pops restore the cursors in the reverse
\* order of the pushes; popCursors(n), for n from 1 to the number saved,
\* leaves the accessor as dropCursors(n - 1) followed by popCursor does; a
\* pop or a drop of more cursors than are saved returns InvalidParameter
\* and changes nothing.
C23_CursorStackLifo ==
    [][ LET i == handle[1]
            a == acc[i]
            size == a.cursorStackSize
        IN
        /\ (\E env \in MallocEnv : accessorPushCursorWithin(1, env, MaxLifo))
              /\ last'.status = "Ok"
              => /\ SavedCursors(i)' = Append(SavedCursors(i), a.cursor)
                 /\ acc'[i].cursor = a.cursor
        /\ (\E o \in 0 .. DataSize + 1 : accessorSeek(1, o, "SEEK_SET"))
              => SavedCursors(i)' = SavedCursors(i)
        /\ accessorPopCursor(1)
              => IF size >= 1
                 THEN /\ last'.status = "Ok"
                      /\ acc'[i].cursor = SavedCursors(i)[size]
                      /\ SavedCursors(i)' = SubSeq(SavedCursors(i), 1, size - 1)
                 ELSE RefusedStackCall(i)
        /\ \A n \in LifoCounts :
              /\ accessorPopCursors(1, n, "pop")
                    => IF n <= size
                       THEN /\ last'.status = "Ok"
                            /\ acc'[i] = Popped(Dropped(a, n - 1))
                       ELSE RefusedStackCall(i)
              /\ accessorDropCursors(1, n)
                    => IF n <= size
                       THEN /\ last'.status = "Ok"
                            /\ acc'[i] = Dropped(a, n)
                       ELSE RefusedStackCall(i)
        /\ accessorDropCursor(1)
              => IF size >= 1
                 THEN last'.status = "Ok" /\ acc'[i] = Dropped(a, 1)
                 ELSE RefusedStackCall(i) ]_vars

\* the second of two pops brought back the cursor saved first, below one
\* saved at another offset
C23_Witness ==
    /\ last.op = "pop" /\ last.status = "Ok"
    /\ acc[last.a].cursorStackSize = 0
    /\ Len(acc[last.a].cursorStack) >= 2
    /\ acc[last.a].cursorStack[1] = 2 /\ acc[last.a].cursorStack[2] = 1
    /\ acc[last.a].cursor = 2

\* the suspendCoverage calls on object a that no later resumeCoverage call
\* has matched
Outstanding(a) == a.coverageSuspendCount

\* C24: suspendCoverage adds one outstanding suspension, resumeCoverage
\* removes one and has no effect when there is none, and a successful read
\* on an accessor with coverage enabled adds a record to the log exactly
\* when no suspension is outstanding.
C24_SuspendNesting ==
    [][ LET i == handle[1]
            a == acc[i]
        IN
        /\ accessorSuspendCoverage(1)
              => Outstanding(acc'[i]) = Outstanding(a) + 1
        /\ accessorResumeCoverage(1)
              => IF Outstanding(a) = 0
                 THEN acc' = acc
                 ELSE Outstanding(acc'[i]) = Outstanding(a) - 1
        /\ (last'.op = "read" /\ last'.status = "Ok" /\ a.coverageEnabled)
              => IF Outstanding(a) = 0
                 THEN Len(acc'[i].coverageArray) = Len(a.coverageArray) + 1
                 ELSE acc'[i].coverageArray = a.coverageArray ]_vars

\* the count a record of count bytes at offset stands for in window a
RecordSize(a, offset, count) ==
    IF count = ACCESSOR_UNTIL_END THEN a.windowSize - offset ELSE count

\* the calls of accessorAddCoverageRecord that add a record
RecordAccepted(a, offset, count, forceOption) ==
    /\ a.coverageSuspendCount = 0
    /\ a.coverageEnabled \/ forceOption
    /\ offset <= a.windowSize
    /\ offset + RecordSize(a, offset, count) <= a.windowSize

\* C25: accessorAddCoverageRecord appends exactly the record
\* {offset, size, usage1, usage2} when coverage is not suspended, coverage
\* is enabled or forced, offset <= windowSize and offset + size <=
\* windowSize (ACCESSOR_UNTIL_END standing for windowSize - offset); in
\* every other case it leaves the log unchanged; it signals no error and
\* changes nothing else.
C25_AddRecordAccepts ==
    [][ \A offset \in RecordOffsets, count \in RecordCounts,
           usage1 \in RecordUsages, forceOption \in BOOLEAN :
          accessorAddCoverageRecord(1, offset, count, usage1, 0, forceOption)
            => LET i == handle[1]
                   a == acc[i]
               IN
               /\ last'.status = "Ok"
               /\ acc'[i] =
                    IF RecordAccepted(a, offset, count, forceOption)
                    THEN [ a EXCEPT !.coverageArray =
                             Append(@, [ offset |-> offset,
                                         size |-> RecordSize(a, offset, count),
                                         usage1 |-> usage1, usage2 |-> 0 ]) ]
                    ELSE a ]_vars

\* the open sub-views whose data is the data of base i
SubViewsOf(i) ==
    { j \in AccIds : /\ acc[j].allocated
                     /\ ~acc[j].isBaseAccessor
                     /\ acc[j].baseAccessor = i }

\* the calls that may store bytes or move the end of the window; popCursor
\* is accessorSeek to the saved cursor, which extends a write-enabled
\* accessor like any other seek
WriteFamily == {"write", "seek", "truncate", "pop"}

\* C26: the stored bytes and the windowSize of a base that stays open
\* change only in a step that is a successful write-family call on that
\* base while it is write-enabled, so no call on an accessor that is not
\* write-enabled changes them; and while a sub-view of the base is open
\* its data pointer, its allocation size and its contents do not change.
C26_BaseFrame ==
    [][ \A i \in AccIds :
          (acc[i].allocated /\ acc[i].isBaseAccessor /\ acc'[i].allocated) =>
            /\ (store'[i] # store[i] \/ acc'[i].windowSize # acc[i].windowSize)
                  => /\ last'.op \in WriteFamily
                     /\ last'.status = "Ok"
                     /\ last'.a = i
                     /\ acc[i].writeEnabled
            /\ SubViewsOf(i) # {}
                  => /\ store'[i] = store[i]
                     /\ acc'[i].data = acc[i].data
                     /\ acc'[i].dataMaxSize = acc[i].dataMaxSize ]_vars

\* C27: every record of the coverage log of an open accessor lies inside
\* the current window of that accessor: offset + size <= windowSize.
C27_RecordsInsideWindow ==
    \A i \in AccIds :
       acc[i].allocated =>
          \A k \in 1 .. Len(acc[i].coverageArray) :
             acc[i].coverageArray[k].offset + acc[i].coverageArray[k].size
                <= acc[i].windowSize

\* C28: an open function that returns a status other than Ok leaves every
\* handle that was ACCESSOR_INIT at ACCESSOR_INIT, the handle it was called
\* with included, and leaves no accessor object behind: the objects that
\* exist after the call are those that existed before it.
C28_FailedOpenLeavesInit ==
    [][ (last'.op \in {"open", "openSub"} /\ last'.status # "Ok") =>
          /\ \A h \in Handles :
                handle[h] = ACCESSOR_INIT => handle'[h] = ACCESSOR_INIT
          /\ { i \in AccIds : acc'[i].allocated } = Open ]_vars

\* the bytes of a window of windowSize bytes that the records of array
\* carrying the pair (usage1, usage2) cover
Covered(array, windowSize, usage1, usage2) ==
    { b \in 0 .. windowSize - 1 :
        \E k \in 1 .. Len(array) :
           /\ array[k].usage1 = usage1
           /\ array[k].usage2 = usage2
           /\ array[k].offset <= b
           /\ b < array[k].offset + array[k].size }

C30_ZeroCountChangesNothing ==
    [][ (accessorPopCursors(1, 0, "pop") \/ accessorDropCursors(1, 0)) =>
          LET i == handle[1] IN
          /\ acc'[i].cursor = acc[i].cursor
          /\ acc'[i].availableBytes = acc[i].availableBytes
          /\ acc'[i].windowOffset = acc[i].windowOffset
          /\ acc'[i].windowSize = acc[i].windowSize
          /\ SavedCursors(i)' = SavedCursors(i) ]_vars

====
